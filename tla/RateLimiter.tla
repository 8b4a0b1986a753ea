----------------------------- MODULE RateLimiter -----------------------------
(***************************************************************************)
(* The limit on how often one address may post to a route.  The            *)
(* configuration names a storage and a strategy, but they are attached to  *)
(* app.config as attributes, where Flask-Limiter does not look: it counts  *)
(* in the memory of each worker, in fixed windows that open with the first *)
(* request.  One address is modelled, from which all users come.           *)
(***************************************************************************)
EXTENDS Naturals, FiniteSets

CONSTANTS Workers,
          None,
          Limit,      \* requests allowed to a window
          Window,     \* its length, in units of time
          MaxKills    \* bound on the workers that are killed

ASSUME WorkersAssumption == IsFiniteSet(Workers)
ASSUME LimitAssumption == /\ Limit \in Nat \ {0} /\ Window \in Nat \ {0}
                          /\ MaxKills \in Nat

VARIABLES hits,      \* the counter each worker has in memory
          admitted,  \* history: the requests let in during the last Window
          kills      \* history: how many workers were killed

limiterVars == <<hits, admitted, kills>>

Counter == [count : 1 .. Limit, age : 0 .. Window - 1]

(* A request that was let in: by which worker, as which of its window, and *)
(* how long ago; whether that window is over, and if a kill ended it, which. *)
Admission == [by : Workers, nth : 1 .. Limit, age : 0 .. Window - 1,
              window : {"open", "over"}, kill : 0 .. MaxKills]

LimiterInit == hits = [w \in Workers |-> None] /\ admitted = {} /\ kills = 0

(* Mutant: a request too many.                                             *)
BelowOneMore(w) == hits[w] # None => hits[w].count <= Limit

Below(w) == hits[w] # None => hits[w].count < Limit

(* The worker takes a request in; one that it refuses is answered with 429 *)
(* before the handler runs, and changes nothing.                           *)
Nth(w) == IF hits[w] = None THEN 1 ELSE hits[w].count + 1

Admit(w) ==
  /\ Below(w)
  /\ hits' = [hits EXCEPT ![w] =
       [count |-> Nth(w), age |-> IF hits[w] = None THEN 0 ELSE hits[w].age]]
  /\ admitted' = admitted \cup
       {[by |-> w, nth |-> Nth(w), age |-> 0, window |-> "open", kill |-> 0]}
  /\ kills' = kills

Ends(w) == hits[w] = None \/ hits[w].age = Window - 1

Older(r) == [r EXCEPT !.age = @ + 1,
                      !.window = IF Ends(r.by) THEN "over" ELSE @]

Elapse ==
  /\ hits' = [w \in Workers |->
       IF Ends(w) THEN None ELSE [hits[w] EXCEPT !.age = @ + 1]]
  /\ admitted' = {Older(r) : r \in {q \in admitted : q.age < Window - 1}}
  /\ kills' = kills

(* A worker is killed and gunicorn starts another in its place.            *)
Forget(w) ==
  /\ kills < MaxKills
  /\ kills' = kills + 1
  /\ hits' = [hits EXCEPT ![w] = None]
  /\ admitted' = {IF r.by = w /\ r.window = "open"
                    THEN [r EXCEPT !.window = "over", !.kill = kills + 1] ELSE r :
                  r \in admitted}

(* The counters keep their shape, and none of them passes the limit.       *)
LimiterTypeOK ==
  /\ hits \in [Workers -> Counter \cup {None}]
  /\ admitted \subseteq Admission
  /\ kills \in 0 .. MaxKills

(* However the requests of one address fall on the workers, no stretch of  *)
(* time as long as the window lets in more of them than this: two fixed    *)
(* windows of every worker overlap it, the first request of the earlier    *)
(* one lies before it, and a worker that is replaced opens a window more   *)
(* (backup.py:57, limiter.py:4).                                           *)
LimitPerWorker ==
  Cardinality(admitted) <= (2 * Limit - 1) * Cardinality(Workers) + Limit * kills
=============================================================================
