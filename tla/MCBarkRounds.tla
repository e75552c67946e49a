---------------------------- MODULE MCBarkRounds ----------------------------
(* Small instances of BarkRounds. *)
EXTENDS BarkRounds, TLC

CONSTANTS p1, p2, v1, v2, t1, t2

(* A second participation retries an input of the first. *)
MCInputsOf == (p1 :> {v1, v2}) @@ (p2 :> {v2})

(* The daemon with a caller that syncs, the command line, and a restart. *)
MCDaemon == [kinds |-> (t1 :> {"daemon"}) @@ (t2 :> {"sync"}), serial |-> FALSE,
             parts |-> {p1}, txs |-> {<<1, 0>>, <<1, 1>>, <<2, 0>>}, crashes |-> 0]
MCCommandLine == [kinds |-> (t1 :> {"sync", "progress", "participate", "ongoing", "cancel"})
                              @@ (t2 :> {}),
                  serial |-> TRUE, parts |-> {p1, p2}, txs |-> {<<1, 0>>, <<2, 0>>}, crashes |-> 0]
MCRestart == [kinds |-> (t1 :> {"sync", "progress"}) @@ (t2 :> {}), serial |-> TRUE,
              parts |-> {p1, p2}, txs |-> {<<1, 0>>, <<2, 0>>}, crashes |-> 1]
MCModes == {MCDaemon, MCCommandLine, MCRestart}
=============================================================================
