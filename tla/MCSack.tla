------------------------------- MODULE MCSack -------------------------------
(***************************************************************************)
(* Two Sack slots, two objects and one query held by a caller: enough for *)
(* one Sack's overlay to name an object another Sack owns, for a Sack to   *)
(* be destroyed and rebuilt, and for a query to span a Sack's lifetime.    *)
(***************************************************************************)
EXTENDS Sack, TLC

CONSTANTS sk1, sk2, o1, o2, q1

MCSacks == {sk1, sk2}
MCObjs == {o1, o2}
MCQueries == {q1}
MCValues == {{o1}, {o2}}
====
