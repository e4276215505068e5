SPECIFICATION BundleSpec
CONSTANTS
  Project = {p, q}
  Origin = {p}
  Target = {q}
  Slot = {r1}
  Reader = {r1}
  File = {history, cache, key}
  Packages = cache
  Credential = {key}
  Nested = {}
  Artifact = {key}
  Backup = {cache, key}
  Ignored = {cache}
  Written = {history}
  Held = {}
  Installed = {}
  Source = {history, cache, key}
  Chain = {base, old}
  Image = {base, old}
  BaseChain = base
  NoChain = NoChain
  NoManifest = NoManifest
  MaxVersion = 2
INVARIANT RestoredOnItsRootfs
