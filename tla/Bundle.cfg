SPECIFICATION BundleSpec
CONSTANTS
  Project = {p, q}
  Origin = {p}
  Target = {q}
  Slot = {r1, r2}
  Reader = {r1}
  File = {history, cache, key}
  Packages = cache
  Credential = {key}
  Nested = {}
  Artifact = {key}
  Backup = {cache, key}
  Ignored = {cache}
  Written = {history}
  Held = {history, cache, key}
  Installed = {}
  Source = {history, cache, key}
  Chain = {base}
  Image = {base}
  BaseChain = base
  NoChain = NoChain
  NoManifest = NoManifest
  MaxVersion = 2
INVARIANTS RestoredAsPacked SessionBeforeCaches SecretsStay
