--------------------------- MODULE MCPairSession ----------------------------
(***************************************************************************)
(* PairSession for TLC: whether the pair converges, asked of every         *)
(* reachable state by playing a lossless exchange from it.                 *)
(***************************************************************************)
EXTENDS PairSession

CONSTANT Spare      \* ids of the sessions an exchange may open, none of them in Session

ASSUME SpareAssumption ==
  Spare \subseteq Nat \ {0} /\ Spare \cap Session = {}

\* One turn: `from` writes, opening s if it needs a session, and `to` receives it.
Turn(pair, from, s, ts) ==
  LET to    == Peer(from)
      ready == Ensure(RestartIfRestored(pair[from]), s)
      m     == Sealed(from, ready, ts)
  IN  [pair EXCEPT ![from] = [ready EXCEPT !.seq = @ + 1],
                   ![to]   = IF Readable(@, m) THEN Reconcile(@, m) ELSE @]

\* Both write twice, d first, nothing is lost, and the clocks run.
Exchange(d, s, t) ==
  LET p  == Peer(d)
      d1 == Turn(row, d, s, clock[d] + 1)
      p1 == Turn(d1,  p, t, clock[p] + 1)
      d2 == Turn(p1,  d, t, clock[d] + 2)
  IN  Turn(d2, p, t, clock[p] + 2)

\* From every reachable state, whatever was lost or crossed before, two
\* undisturbed messages each way bring both devices to the same epoch and the
\* same confirmed session.
ExchangeConverges ==
  \A d \in Device : \A s, t \in Spare :
    (s # t /\ \A e \in Device : row[e].epoch + 2 <= MaxEpoch) =>
      LET after == Exchange(d, s, t)
      IN  /\ after[Alice].epoch = after[Bob].epoch
          /\ after[Alice].psk = after[Bob].psk
          /\ ~after[Alice].init /\ ~after[Bob].init
=============================================================================
