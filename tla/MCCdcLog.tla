------------------------------- MODULE MCCdcLog -------------------------------
(* Feeds for TLC. *)
EXTENDS CdcLog

CONSTANTS erp, mes, machine, order

Ev(i, s, n, t, x, o) == [id |-> i, src |-> s, seq |-> n, time |-> t, ent |-> x, op |-> o]

\* Two sources whose clocks follow their sequences.  The first and the last
\* event of erp are also offered under another id, the last one with another
\* operation, and mes offers its second event under an id of erp too.  Two
\* ticks are a second: the last events are a second and a half apart.
OrderedFeed ==
  { Ev(1, erp, 1, 2, order, "upsert"), Ev(2, erp, 2, 4, order, "upsert"),
    Ev(3, erp, 3, 7, order, "delete"), Ev(6, erp, 1, 2, order, "upsert"),
    Ev(7, erp, 3, 7, order, "upsert"), Ev(4, mes, 1, 2, machine, "upsert"),
    Ev(5, mes, 2, 4, machine, "delete"), Ev(1, mes, 2, 4, machine, "upsert") }

\* A source whose clock does not follow its sequence: the third event is
\* older than the second.
LateFeed ==
  { Ev(1, erp, 1, 1, order, "upsert"), Ev(2, erp, 2, 3, order, "upsert"),
    Ev(3, erp, 3, 2, order, "upsert"), Ev(4, mes, 1, 3, machine, "upsert") }
===============================================================================
