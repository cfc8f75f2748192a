----------------------------- MODULE MCRuntime ------------------------------
(***************************************************************************)
(* Two processes.  The first is run for every combination of a requirement *)
(* and a place to state it; the second for a few jobs that race with it.   *)
(***************************************************************************)
EXTENDS Runtime

Word(op, text) == [op |-> op, text |-> text]

MCVersions == {<<0, 0, 1>>, <<1, 0, 0>>, <<1, 1, 0>>, <<2, 0, 0>>, Nightly}

\* 1.1.0   ^1.0   ~1   ~1.0   >= 1.1 <2   > =1.1   0.x || >=2   1   ^0.0.1   *   v
\* lts/iron
MCRequirements ==
    {{<<Word("", <<1, 1, 0>>)>>},
     {<<Word("^", <<1, 0, X>>)>>},
     {<<Word("~", <<1, X, X>>)>>},
     {<<Word("~", <<1, 0, X>>)>>},
     {<<Word(">=", Lone), Word("", <<1, 1, X>>), Word("<", <<2, X, X>>)>>},
     {<<Word(">", Lone), Word("=", <<1, 1, X>>)>>},
     {<<Word("", <<0, X, X>>)>>, <<Word(">=", <<2, X, X>>)>>},
     {<<Word("", <<1, X, X>>)>>},
     {<<Word("^", <<0, 0, 1>>)>>},
     {<<Word("", Star)>>},
     {<<Word("", Lone)>>},
     {<<Word("", Bad)>>}}

Section(name) == [key |-> "[]", name |-> name, value |-> <<>>]
Pair(key, value) == [key |-> key, name |-> "", value |-> value]

NodeHosts == {<<>>, <<<<1, 0, 0>>>>, <<<<2, 0, 0>>>>, <<Nightly>>}

MCJob(c, toml, files, engine, host) ==
    [command |-> c, toml |-> toml, files |-> files, engine |-> engine,
     host |-> host]

NoFiles == <<<<>>, <<>>>>

WideJobs ==
    {MCJob("npm", <<Section("runtime"), Pair("node", <<r>>), Pair("node", <<>>),
                    Section("other"), Pair("node", <<{<<>>}>>)>>,
           NoFiles, <<>>, <<>>) : r \in MCRequirements}
    \union {MCJob("pnpm", <<Pair("node", <<r>>)>>, <<<<>>, <<r>>>>, <<>>, <<>>) :
                r \in MCRequirements}
    \union {MCJob("node", <<>>, NoFiles, <<r>>, h) :
                r \in MCRequirements, h \in NodeHosts}
    \union {MCJob("npx", <<>>, NoFiles, <<>>, h) : h \in NodeHosts}
    \union {MCJob("bunx", <<Section("runtime"), Pair("bun", <<r>>)>>, NoFiles,
                  <<>>, <<>>) : r \in MCRequirements}
    \union {MCJob(c, <<>>, NoFiles, <<>>, <<>>) : c \in {"bun", "claude", "git"}}

NarrowJobs ==
    {MCJob("node", <<>>, NoFiles, <<>>, <<v>>) :
        v \in {<<1, 0, 0>>, <<1, 1, 0>>}}
    \union {MCJob("yarn", <<>>, NoFiles, <<>>, <<>>),
            MCJob("bun", <<>>, NoFiles, <<>>, <<<<1, 0, 0>>>>)}

MCJobs == [p \in Procs |-> IF p = 1 THEN WideJobs ELSE NarrowJobs]

Release(v, lts, stable) == [version |-> v, lts |-> lts, stable |-> stable]

MCReleases ==
    [node |-> {Release(<<0, 0, 1>>, FALSE, TRUE), Release(<<1, 0, 0>>, TRUE, TRUE),
               Release(<<1, 1, 0>>, TRUE, TRUE), Release(<<2, 0, 0>>, FALSE, TRUE),
               Release(Nightly, FALSE, TRUE)},
     bun  |-> {Release(<<1, 0, 0>>, FALSE, TRUE), Release(<<1, 1, 0>>, FALSE, TRUE),
               Release(<<2, 0, 0>>, FALSE, FALSE)}]

\* corepack comes with the older versions only.
MCShips == [v \in MCVersions |->
              IF v = <<2, 0, 0>> THEN {"npm", "npx"} ELSE Scripts]

=============================================================================
