---- MODULE MCServerHost ----
EXTENDS ServerHost, TLC

Symmetry == Permutations(Pid)
MCEnv == {<<>>, ("addr" :> "b") @@ ("pepper" :> "ephemeral")}
MCFiles ==
    {NoFile,
     File(("db" :> "url") @@ ("dir" :> "d") @@ ("pepper" :> "secret")),
     File(("db" :> "url") @@ ("s3" :> "half"))}

\* Every file that leaves the address alone: what start asks of a report against
\* what the server needs, on every host.
ASSUME CheckAgrees ==
    \A f \in {v \in Source : "addr" \notin DOMAIN v}, h \in Host, env \in MCEnv :
        Passes(Check(env, File(f), h)) <=>
            /\ Starts(env, File(f), h)
            /\ ~(Has(Load(env, File(f)), "dir") /\ h.dir[Load(env, File(f))["dir"]] = "readonly")

\* main.rs: a fact is one line, always; and the reader has the message back, but for
\* carriage returns.
ASSUME ReportIsOneLine ==
    \A n \in 0 .. 5 : \A message \in [1 .. n -> {Backslash, LineBreak, Return, "n", "x"}] :
        /\ \A i \in DOMAIN OneLine(message) : OneLine(message)[i] \notin {LineBreak, Return}
        /\ Unescaped(OneLine(message)) = SelectSeq(message, LAMBDA c : c # Return)

\* server.rs: what no report wrote is read as it stands.
ASSUME LoneBackslashIsItself ==
    /\ Unescaped(<<"x", Backslash, "x", "n">>) = <<"x", Backslash, "x", "n">>
    /\ Unescaped(<<"x", Backslash>>) = <<"x", Backslash>>
====
