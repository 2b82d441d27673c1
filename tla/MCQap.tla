-------------------------------- MODULE MCQap --------------------------------
(* QAP1 sessions for TLC. *)
EXTENDS QapSession

Config(authReq, auth, io, ocMode) == [authReq |-> authReq, auth |-> auth, io |-> io, oc |-> ocMode]

\* Open; open with a password file; by password file and by function; the OC server.
SomeConfigs ==
    {Config(FALSE, "none", TRUE, FALSE), Config(FALSE, "file", FALSE, FALSE),
     Config(TRUE, "file", TRUE, FALSE), Config(TRUE, "function", FALSE, FALSE),
     Config(FALSE, "none", FALSE, TRUE)}

C(cmd, par) == [cmd |-> cmd, par |-> par]

SomeCommands ==
    {C("OCcall", "ref"), C("switch", "TLS"), C("keyReq", "rsa"), C("keyReq", "bad"),
     C("secLogin", "admin"), C("secLogin", "bad"),
     C("login", "user"), C("login", "admin"), C("login", "noUid"), C("login", "wrong"), C("login", "bad"),
     C("huge", "ok"), C("shutdown", "ok"), C("ctrlEval", "ok"), C("ctrlShutdown", "ok"),
     C("setEncoding", "ok"), C("openFile", "ok"), C("closeFile", "ok"), C("writeFile", "ok"),
     C("assignSEXP", "syntax"), C("eval", "ok"),
     C("detachSession", "ok"), C("detachedVoidEval", "ok"), C("detachedVoidEval", "syntax"),
     C("detachedVoidEval", "sexp"), C("serEval", "ok"), C("serAssign", "ok"), C("serAssign", "bad"),
     C("unknown", "ok")}
=============================================================================
