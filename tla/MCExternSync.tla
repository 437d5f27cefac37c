----------------------------- MODULE MCExternSync -----------------------------
(* The instance of ExternSync for TLC: two extern cells for one cell, one   *)
(* for a name the server does not have.                                     *)
EXTENDS ExternSync, TLC

SomeAliases == {"p", "q", "u"}
SomeRemote == "p" :> "x" @@ "q" :> "x" @@ "u" :> "z"
=============================================================================
