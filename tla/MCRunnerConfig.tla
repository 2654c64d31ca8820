--------------------------- MODULE MCRunnerConfig ---------------------------
(* Model checking of RunnerConfig: two admins, a url and token moved together. *)
EXTENDS RunnerConfig, TLC

Config(m, u, t) == [mode |-> m, url |-> u, token |-> t]

SomeUrls   == {"u0", "u1", "u2"}
SomeTokens == {"t0", "t1", "t2"}

SomeEnvs ==
    {Config(None, None, None), Config("remote", "u0", "t0"), Config("quantum", None, "t0")}

SomePayloads ==
    {Config(None, None, None), Config("stub", None, None),
     Config("remote", "u1", "t1"), Config("remote", "u2", "t2"),
     Config("remote", "u2", None)}

SomeFlags == {TRUE, FALSE, None}

Symmetric == Permutations(Admins)
=============================================================================
