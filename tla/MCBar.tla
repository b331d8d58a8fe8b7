------------------------------- MODULE MCBar -------------------------------
(***************************************************************************)
(* Two tickets that come to share a file: p of two criteria, to be split,  *)
(* one of its pieces once more, and q, a bug with a reproduction and a     *)
(* test its report contradicts.                                            *)
(***************************************************************************)
EXTENDS Bar

CONSTANTS p, q, p1, p2, p3, p4, n, D, d, w, long, cause, f, g, h, tg, tq, ts, away,
          c1, c2, cq, r1, soft, more, whole, v

MCSentences == {n, D, d, w, long, cause}
MCPlain == [m \in {D} |-> d]
MCPins == [c \in {c1, c2, cq, r1, soft, more, whole} |-> IF c \in {c1, r1} THEN {v} ELSE {}]
MCBuildOf == [x \in {f, g, h, tg, tq, ts, away} |-> Absent]
MCChildren == {p1, p2, p3, p4}
MCParentOf == [c \in MCChildren |-> IF c \in {p1, p2} THEN p ELSE p1]
MCPosition == (p :> 1) @@ (q :> 2) @@ (p1 :> 101) @@ (p2 :> 102)
                @@ (p3 :> 10101) @@ (p4 :> 10102)
MCFileOrder == <<f, g, h, tg, tq, ts, away>>

MCNeeds == [t \in {p, q} |-> {}]
MCSpec == [t \in {p, q} |-> IF t = p THEN {n, D} ELSE {n}]
MCCriteria == [t \in {p, q} |-> IF t = p THEN {c1, c2} ELSE {cq}]
MCScope == [t \in {p, q} |-> IF t = p THEN {f, g, tg} ELSE {h}]
MCContext == [t \in {p, q} |-> {n}]
MCGuarded == [t \in {p, q} \cup MCChildren |-> IF t = q THEN {tq} ELSE {}]
MCDisputed == [t \in {p, q} \cup MCChildren |-> IF t = q THEN {ts} ELSE {}]

Rewrite(spec, criteria, scope, context) ==
    [spec |-> spec, criteria |-> criteria, scope |-> scope, context |-> context]

MCRewrites ==
    [t \in {p, q} \cup MCChildren |->
       CASE t = p -> { Rewrite({D, d}, {r1, c2}, {f, away}, {w}) }
         [] t = q -> { Rewrite({n, d}, Absent, {g, ts, tq}, Absent) }
         [] t = p1 -> { Rewrite({n, D, d}, {soft, r1}, {g}, Absent) }
         [] OTHER -> {}]

Piece(spec, criteria, covers, scope, needs) ==
    [spec |-> spec, criteria |-> criteria, covers |-> covers, scope |-> scope, needs |-> needs]

MCSplits ==
    { (p1 :> Piece({n}, {soft}, {c1}, {g}, {})) @@ (p2 :> Piece({D}, {soft}, {c2}, {f, g}, {p1})),
      (p1 :> Piece({n}, {soft}, {c2}, {f}, {p2})) @@ (p2 :> Piece({D}, {soft}, {r1, c2}, {f}, {})),
      (p3 :> Piece({n}, {}, {c1}, {g}, {})) @@ (p4 :> Piece({n}, {}, {soft}, {g}, {p3})) }

MCDiagnoses == {[spec |-> {cause}, scope |-> {f, g}, context |-> {d}]}
=============================================================================
