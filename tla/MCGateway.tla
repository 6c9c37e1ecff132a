----------------------------- MODULE MCGateway -----------------------------
(* Requests at the gateway with one token, for TLC. *)
EXTENDS Gateway, TLC

\* One limit can be reached.
MCMax == [l \in Limits |-> IF l = "ip" THEN 1 ELSE MaxRequests]

\* A request that needs a right, and whose guard asks about the device, the longest way:
\* one kind for each target.
Entitled(r) ==
  /\ r.kind.guard = "fingerprint" /\ r.kind.target # "missing"
  /\ r.kind.carries = (r.kind.target # "local")
  /\ r.kind.admin = (r.kind.target = "open")

\* Bounds: the clock starts with the first request; two requests overlap where rights
\* matter and no call fails, and other requests are one handler's; a call fails before the
\* fourth instant.
Bounded ==
  /\ begun = 0 => now = 0
  /\ \A g, h \in Handlers :
       g # h /\ Busy(h) /\ ~Entitled(requests[h]) => ~Busy(g) /\ answers[g] = "none"
  /\ faults > 0 => now < 3 /\ \E h \in Handlers : ~Busy(h)

Symmetry == Permutations(Handlers)

=============================================================================
