------------------------------ MODULE TimersProofs ------------------------------
(* Proofs about Timers and Requester, for any places, timers and threads.  *)
EXTENDS Requester, TLAPS

(* Run r still has to decide whether its timer goes on.                    *)
Holds(r) == \/ stage[r] = "locked"
            \/ stage[r] = "called" /\ kind[of[r]] = "sync"
            \/ r \in owed

(* Run r is the one from which its timer goes on.                          *)
Carries(r) == stage[r] = "queued" \/ (Holds(r) /\ expires[of[r]] = "after")

(* A place that is in use has a timer, and who owes an answer is past its  *)
(* call and asynchronous.                                                  *)
PlaceInv ==
  \A r \in Runs :
    /\ of[r] \in 0..idCounter
    /\ (stage[r] # "free" \/ r \in owed) => of[r] \in 1..idCounter
    /\ r \in owed => stage[r] \notin {"queued", "locked"} /\ kind[of[r]] # "sync"

(* Who counts its period from before the call knows the next run until it  *)
(* has decided about it, and nobody else does.                             *)
NextInv ==
  \A r \in Runs :
    /\ next[r] # NoRun <=> (Holds(r) /\ expires[of[r]] = "before")
    /\ next[r] # NoRun => of[next[r]] = of[r]

CarrierInv ==
  \A r, s \in Runs : (Carries(r) /\ Carries(s) /\ of[r] = of[s]) => r = s

(* What is left of a timer that was refused is a post that has been told.  *)
RefusedInv ==
  /\ refused \subseteq 1..idCounter
  /\ \A r \in Runs : (of[r] \in refused /\ Carries(r)) => expires[of[r]] = "before" /\ ~go[r]

TimersInv == TypeOK /\ PlaceInv /\ NextInv /\ CarrierInv /\ RefusedInv

-----------------------------------------------------------------------------
LEMMA InitTimers == Init => TimersInv
<1> SUFFICES ASSUME Init PROVE TimersInv
  OBVIOUS
<1>1. TypeOK
  <2>1. 0 \in 0..MaxTimers
    BY TimersAssumption
  <2>2. QED
    BY <2>1 DEF Init, TypeOK, AllKinds, Stages
<1>2. \A r \in Runs : stage[r] = "free" /\ of[r] = 0 /\ next[r] = NoRun /\ r \notin owed
  BY DEF Init
<1>3. idCounter = 0 /\ refused = {}
  BY DEF Init
<1>4. \A r \in Runs : ~Holds(r) /\ ~Carries(r)
  BY <1>2 DEF Holds, Carries
<1>5. PlaceInv
  BY <1>2, <1>3 DEF PlaceInv
<1>6. QED
  BY <1>1, <1>2, <1>3, <1>4, <1>5 DEF TimersInv, NextInv, CarrierInv, RefusedInv

(* The types of the variables that a run has, apart from the others.       *)
RunTypes ==
  /\ stage \in [Runs -> Stages]
  /\ of \in [Runs -> 0..MaxTimers]
  /\ go \in [Runs -> BOOLEAN]
  /\ next \in [Runs -> Runs \cup {NoRun}]
  /\ owed \subseteq Runs
  /\ idCounter \in Nat /\ idCounter \in 0..MaxTimers /\ MaxTimers \in Nat

LEMMA TypesOfRuns == ASSUME TypeOK PROVE RunTypes
BY TimersAssumption DEF TypeOK, RunTypes

LEMMA OthersKept ==
  ASSUME TypeOK, UNCHANGED <<timerVars, flagVars>>,
         stage' \in [Runs -> Stages], of' \in [Runs -> 0..MaxTimers], go' \in [Runs -> BOOLEAN],
         next' \in [Runs -> Runs \cup {NoRun}], owed' \subseteq Runs, queueAlive' \in BOOLEAN,
         refused' \subseteq Timer, late' \subseteq Timer
  PROVE  TypeOK'
BY DEF TypeOK, timerVars, flagVars

(* A place that is free, and what a post makes of it.                      *)
LEMMA FreePlace ==
  ASSUME TimersInv, NEW n \in Free
  PROVE  /\ n \in Runs /\ stage[n] = "free" /\ n \notin owed /\ ~Holds(n) /\ ~Carries(n)
         /\ next[n] = NoRun
         /\ \A r \in Runs : next[r] # n
<1>1. n \in Runs /\ stage[n] = "free" /\ n \notin owed /\ \A r \in Runs : next[r] # n
  BY DEF Free
<1>2. ~Holds(n) /\ ~Carries(n)
  BY <1>1 DEF Holds, Carries
<1>3. next[n] = NoRun
  BY <1>1, <1>2 DEF TimersInv, NextInv
<1>4. QED
  BY <1>1, <1>2, <1>3

LEMMA Posts ==
  ASSUME TypeOK, NEW n \in Free, NEW t \in 0..MaxTimers, NEW s \in [Runs -> Stages],
         PostRun(n, t, s)
  PROVE  /\ stage' \in [Runs -> Stages] /\ of' \in [Runs -> 0..MaxTimers]
         /\ go' \in [Runs -> BOOLEAN]
         /\ \A q \in Runs : /\ stage'[q] = IF q = n THEN "queued" ELSE s[q]
                            /\ of'[q] = IF q = n THEN t ELSE of[q]
                            /\ go'[q] = IF q = n THEN TRUE ELSE go[q]
BY DEF PostRun, TypeOK, Free, Stages

-----------------------------------------------------------------------------
(* The operations of the manager.                                          *)

LEMMA CreateKeeps ==
  ASSUME TimersInv, NEW k \in Kinds, NEW e \in Expires, Create(k, e)
  PROVE  TimersInv'
<1> DEFINE t == idCounter + 1
<1>1. TypeOK /\ PlaceInv /\ NextInv /\ CarrierInv /\ RefusedInv /\ RunTypes
  BY TypesOfRuns DEF TimersInv
<1>2. idCounter < MaxTimers /\ idCounter' = t
  BY DEF Create
<1>3. t \in Timer /\ t \in 0..MaxTimers /\ t \in Nat
  BY <1>1, <1>2 DEF RunTypes, Timer
<1>4. /\ kind' = [kind EXCEPT ![t] = k] /\ expires' = [expires EXCEPT ![t] = e]
      /\ idMap' = idMap \cup {t}
  BY <1>2 DEF Create
<1>5. /\ next' = next /\ owed' = owed /\ queueAlive' = queueAlive
      /\ refused' = refused /\ late' = late /\ handles' = handles /\ flag' = flag
  BY DEF Create, pastVars
<1>6. PICK n \in Free : PostRun(n, t, stage)
  BY <1>2 DEF Create
<1>7. /\ n \in Runs /\ stage[n] = "free" /\ n \notin owed /\ ~Holds(n) /\ ~Carries(n)
      /\ next[n] = NoRun
      /\ \A r \in Runs : next[r] # n
  BY FreePlace
<1>8. /\ stage' \in [Runs -> Stages] /\ of' \in [Runs -> 0..MaxTimers] /\ go' \in [Runs -> BOOLEAN]
      /\ \A q \in Runs : /\ stage'[q] = IF q = n THEN "queued" ELSE stage[q]
                         /\ of'[q] = IF q = n THEN t ELSE of[q]
                         /\ go'[q] = IF q = n THEN TRUE ELSE go[q]
  <2>1. stage \in [Runs -> Stages]
    BY <1>1 DEF RunTypes
  <2>2. QED
    BY <1>1, <1>3, <1>6, <2>1, Posts
<1> HIDE DEF t
<1>9. /\ kind' \in [Timer -> AllKinds] /\ expires' \in [Timer -> {"after", "before"}]
      /\ \A u \in 1..idCounter : u # t /\ kind'[u] = kind[u] /\ expires'[u] = expires[u]
  <2>1. kind \in [Timer -> AllKinds] /\ expires \in [Timer -> {"after", "before"}]
    BY <1>1 DEF TypeOK
  <2>2. k \in AllKinds /\ e \in {"after", "before"}
    BY ChoiceAssumption
  <2>3. \A u \in 1..idCounter : u \in Timer /\ u # t
    BY <1>1, <1>2 DEF RunTypes, Timer, t
  <2>4. QED
    BY <1>3, <1>4, <2>1, <2>2, <2>3
<1>10. 1..idCounter \subseteq 1..idCounter' /\ 0..idCounter \subseteq 0..idCounter'
       /\ t \in 1..idCounter' /\ t \in 0..idCounter'
  BY <1>1, <1>2 DEF RunTypes, t
<1>11. TypeOK'
  <2>1. idMap' \subseteq 1..idCounter' /\ handles' \subseteq 1..idCounter'
    BY <1>1, <1>4, <1>5, <1>10 DEF TypeOK
  <2>2. idCounter' \in 0..MaxTimers
    BY <1>2, <1>3
  <2>3. QED
    BY <1>1, <1>5, <1>8, <1>9, <2>1, <2>2 DEF TypeOK
<1>12. \A r \in Runs : r # n => /\ Holds(r)' <=> Holds(r)
                                /\ Carries(r)' <=> Carries(r)
  <2>1. \A r \in Runs : (stage[r] # "free" \/ r \in owed) => of[r] \in 1..idCounter
    BY <1>1 DEF PlaceInv
  <2>2. QED
    BY <1>5, <1>8, <1>9, <2>1 DEF Holds, Carries
<1>13. ~Holds(n)' /\ of'[n] = t
  BY <1>5, <1>7, <1>8 DEF Holds
<1>14. PlaceInv'
  <2>1. ASSUME NEW r \in Runs
        PROVE  /\ of'[r] \in 0..idCounter'
               /\ (stage'[r] # "free" \/ r \in owed') => of'[r] \in 1..idCounter'
               /\ r \in owed' => stage'[r] \notin {"queued", "locked"} /\ kind'[of'[r]] # "sync"
    <3>1. CASE r = n
      BY <1>5, <1>7, <1>8, <1>10, <3>1
    <3>2. CASE r # n
      <4>1. of'[r] = of[r] /\ stage'[r] = stage[r]
        BY <1>8, <3>2
      <4>2. /\ of[r] \in 0..idCounter
            /\ (stage[r] # "free" \/ r \in owed) => of[r] \in 1..idCounter
            /\ r \in owed => stage[r] \notin {"queued", "locked"} /\ kind[of[r]] # "sync"
        BY <1>1 DEF PlaceInv
      <4>3. QED
        BY <1>5, <1>9, <1>10, <4>1, <4>2
    <3>3. QED
      BY <3>1, <3>2
  <2>2. QED
    BY <2>1 DEF PlaceInv
<1>15. NextInv'
  <2>1. \A r \in Runs : (Holds(r) => of[r] \in 1..idCounter) /\ (next[r] # NoRun => next[r] \in Runs)
    BY <1>1 DEF PlaceInv, Holds, RunTypes
  <2>2. \A r \in Runs : r # n => (next'[r] # NoRun <=> (Holds(r)' /\ expires'[of'[r]] = "before"))
    <3>1. \A r \in Runs : next[r] # NoRun <=> (Holds(r) /\ expires[of[r]] = "before")
      BY <1>1 DEF NextInv
    <3>2. \A r \in Runs : r # n => (Holds(r) => expires'[of'[r]] = expires[of[r]])
      BY <1>8, <1>9, <2>1
    <3>3. QED
      BY <1>5, <1>12, <3>1, <3>2
  <2>3. \A r \in Runs : next'[r] # NoRun => r # n /\ next[r] # n /\ of'[next'[r]] = of'[r]
    BY <1>1, <1>5, <1>7, <1>8, <2>1 DEF NextInv
  <2>4. QED
    BY <1>5, <1>7, <1>13, <2>2, <2>3 DEF NextInv
<1>16. \A r \in Runs : r # n => of'[r] # t
  <2>1. \A r \in Runs : of[r] \in 0..idCounter
    BY <1>1 DEF PlaceInv
  <2>2. t \notin 0..idCounter
    BY <1>1 DEF RunTypes, t
  <2>3. QED
    BY <1>8, <2>1, <2>2
<1>17. CarrierInv'
  BY <1>1, <1>8, <1>12, <1>13, <1>16 DEF CarrierInv
<1>18. RefusedInv'
  <2>1. refused' \subseteq 1..idCounter' /\ refused' \subseteq 1..idCounter
    BY <1>1, <1>5, <1>10 DEF RefusedInv
  <2>2. t \notin refused'
    BY <1>9, <2>1
  <2>3. ASSUME NEW r \in Runs, of'[r] \in refused', Carries(r)'
        PROVE  expires'[of'[r]] = "before" /\ ~go'[r]
    <3>1. r # n /\ of'[r] = of[r] /\ go'[r] = go[r] /\ Carries(r)
      BY <1>8, <1>12, <1>13, <2>2, <2>3
    <3>2. expires[of[r]] = "before" /\ ~go[r] /\ of[r] \in 1..idCounter
      BY <1>1, <1>5, <2>1, <2>3, <3>1 DEF RefusedInv
    <3>3. QED
      BY <1>9, <3>1, <3>2
  <2>4. QED
    BY <2>1, <2>3 DEF RefusedInv
<1>19. QED
  BY <1>11, <1>14, <1>15, <1>17, <1>18 DEF TimersInv

(* Steps that leave the runs and what was decided of them alone.           *)
LEMMA RunsAlone ==
  ASSUME TimersInv, UNCHANGED <<timerVars, runVars, pastVars>>, TypeOK'
  PROVE  TimersInv'
<1>1. /\ idCounter' = idCounter /\ kind' = kind /\ expires' = expires
      /\ stage' = stage /\ of' = of /\ go' = go /\ next' = next /\ owed' = owed
      /\ refused' = refused
  BY DEF timerVars, runVars, pastVars
<1>2. \A r : (Holds(r)' <=> Holds(r)) /\ (Carries(r)' <=> Carries(r))
  BY <1>1 DEF Holds, Carries
<1>3. PlaceInv' /\ NextInv' /\ CarrierInv' /\ RefusedInv'
  BY <1>1, <1>2 DEF TimersInv, PlaceInv, NextInv, CarrierInv, RefusedInv
<1>4. QED
  BY <1>3 DEF TimersInv

LEMMA MapKeeps ==
  ASSUME TimersInv, NEW t \in Timer,
         Detach(t) \/ Release(t) \/ DropHandle(t) \/ Switch(t) \/ Reset
  PROVE  TimersInv'
<1>0. TypeOK
  BY DEF TimersInv
<1>1. ManagerKeeps
  BY DEF Detach, Release, DropHandle, Switch, Reset
<1>2. /\ idMap' \subseteq 1..idCounter /\ handles' \subseteq 1..idCounter
      /\ flag' \in [Timer -> BOOLEAN]
  BY <1>0 DEF Detach, Release, DropHandle, Switch, Reset, TypeOK
<1>3. TypeOK'
  BY <1>0, <1>1, <1>2 DEF TypeOK, ManagerKeeps, timerVars, runVars, pastVars
<1>4. QED
  BY <1>1, <1>3, RunsAlone DEF ManagerKeeps

(* Steps that give no timer a new carrier: of the runs only the stage and  *)
(* what they owe change, so that who holds or carries did so before.       *)
LEMMA NothingNew ==
  ASSUME TimersInv, TypeOK', PlaceInv', NextInv',
         idCounter' = idCounter, expires' = expires, of' = of, go' = go, refused' = refused,
         \A r \in Runs : Carries(r)' => Carries(r)
  PROVE  TimersInv'
BY DEF TimersInv, CarrierInv, RefusedInv

LEMMA DropKeeps ==
  ASSUME TimersInv, DropPosted, queueAlive' \in BOOLEAN
  PROVE  TimersInv'
<1>1. TypeOK /\ PlaceInv /\ NextInv /\ RunTypes
  BY TypesOfRuns DEF TimersInv
<1>2. /\ idCounter' = idCounter /\ kind' = kind /\ expires' = expires /\ of' = of /\ go' = go
      /\ next' = next /\ owed' = owed /\ refused' = refused /\ late' = late
      /\ UNCHANGED <<timerVars, flagVars>>
  BY DEF DropPosted, timerVars, pastVars
<1>3. \A r \in Runs : stage'[r] = IF stage[r] = "queued" THEN "free" ELSE stage[r]
  BY DEF DropPosted
<1>4. stage' \in [Runs -> Stages]
  BY <1>1 DEF DropPosted, RunTypes, Stages
<1>5. TypeOK'
  BY <1>1, <1>2, <1>4, OthersKept DEF TypeOK
<1>6. \A r \in Runs : (Holds(r)' <=> Holds(r)) /\ (Carries(r)' => Carries(r))
  BY <1>2, <1>3 DEF Holds, Carries
<1>7. PlaceInv'
  BY <1>1, <1>2, <1>3 DEF PlaceInv
<1>8. NextInv'
  BY <1>1, <1>2, <1>6 DEF NextInv
<1>9. QED
  BY <1>2, <1>5, <1>6, <1>7, <1>8, NothingNew

-----------------------------------------------------------------------------
(* The runs.                                                               *)

(* A run on a thread, or one that owes an answer, has a timer.             *)
LEMMA HasTimer ==
  ASSUME TimersInv, NEW r \in Runs, stage[r] # "free" \/ r \in owed
  PROVE  /\ of[r] \in 1..idCounter /\ of[r] \in Timer /\ of[r] \in 0..MaxTimers
         /\ expires[of[r]] \in {"after", "before"} /\ kind[of[r]] \in AllKinds
         /\ flag[of[r]] \in BOOLEAN
<1>1. of[r] \in 1..idCounter
  BY DEF TimersInv, PlaceInv
<1>2. TypeOK /\ RunTypes
  BY TypesOfRuns DEF TimersInv
<1>3. of[r] \in Timer /\ of[r] \in 0..MaxTimers
  BY <1>1, <1>2 DEF RunTypes, Timer
<1>4. QED
  BY <1>1, <1>2, <1>3 DEF TypeOK

LEMMA StageTypes ==
  ASSUME TypeOK, NEW r \in Runs, NEW l \in Stages
  PROVE  /\ At(r, l) \in [Runs -> Stages]
         /\ \A q \in Runs : At(r, l)[q] = IF q = r THEN l ELSE stage[q]
BY DEF TypeOK, At

(* A step in which run r, past its call, only moves on.                    *)
LEMMA StageKeeps ==
  ASSUME TimersInv, NEW r \in Runs, NEW l \in {"free", "leaving"},
         stage' = At(r, l), RunKeeps, UNCHANGED <<of, go, next, owed, pastVars>>,
         stage[r] \in {"called", "leaving"}, stage[r] = "called" => kind[of[r]] # "sync"
  PROVE  TimersInv'
<1>1. TypeOK /\ PlaceInv /\ NextInv /\ RunTypes
  BY TypesOfRuns DEF TimersInv
<1>2. /\ idCounter' = idCounter /\ kind' = kind /\ expires' = expires /\ of' = of /\ go' = go
      /\ next' = next /\ owed' = owed /\ refused' = refused /\ late' = late
      /\ queueAlive' = queueAlive /\ UNCHANGED <<timerVars, flagVars>>
  BY DEF RunKeeps, timerVars, pastVars
<1>3. /\ stage' \in [Runs -> Stages]
      /\ \A q \in Runs : stage'[q] = IF q = r THEN l ELSE stage[q]
  BY <1>1, StageTypes DEF Stages
<1>4. TypeOK'
  BY <1>1, <1>2, <1>3, OthersKept DEF TypeOK
<1>5. \A q \in Runs : (Holds(q)' <=> Holds(q)) /\ (Carries(q)' => Carries(q))
  BY <1>2, <1>3 DEF Holds, Carries
<1>6. PlaceInv'
  BY <1>1, <1>2, <1>3 DEF PlaceInv
<1>7. NextInv'
  BY <1>1, <1>2, <1>5 DEF NextInv
<1>8. QED
  BY <1>2, <1>4, <1>5, <1>6, <1>7, NothingNew

LEMMA LeaveKeeps ==
  ASSUME TimersInv, NEW r \in Runs, Leave(r)
  PROVE  TimersInv'
BY StageKeeps DEF Leave

LEMMA CallKeeps ==
  ASSUME TimersInv, NEW r \in Runs, Call(r)
  PROVE  TimersInv'
<1>1. TypeOK /\ PlaceInv /\ NextInv /\ RunTypes
  BY TypesOfRuns DEF TimersInv
<1>2. /\ idCounter' = idCounter /\ kind' = kind /\ expires' = expires /\ of' = of
      /\ go' = go /\ next' = next /\ refused' = refused /\ late' = late
      /\ queueAlive' = queueAlive /\ UNCHANGED <<timerVars, flagVars>>
  BY DEF Call, RunKeeps, timerVars, pastVars
<1>3. /\ stage' \in [Runs -> Stages]
      /\ \A q \in Runs : stage'[q] = IF q = r THEN "called" ELSE stage[q]
  BY <1>1, StageTypes DEF Call, Stages
<1>4. /\ stage[r] = "locked" /\ of[r] \in 1..idCounter
      /\ owed' = IF kind[of[r]] = "sync" THEN owed ELSE owed \cup {r}
  BY HasTimer DEF Call
<1>5. TypeOK'
  BY <1>1, <1>2, <1>3, <1>4, OthersKept DEF TypeOK
<1>6. \A q \in Runs : (Holds(q)' <=> Holds(q)) /\ (Carries(q)' => Carries(q))
  BY <1>2, <1>3, <1>4 DEF Holds, Carries
<1>7. PlaceInv'
  BY <1>1, <1>2, <1>3, <1>4 DEF PlaceInv
<1>8. NextInv'
  BY <1>1, <1>2, <1>6 DEF NextInv
<1>9. QED
  BY <1>2, <1>5, <1>6, <1>7, <1>8, NothingNew

LEMMA ForgetKeeps ==
  ASSUME TimersInv, NEW r \in Runs, Forget(r)
  PROVE  TimersInv'
<1>1. TypeOK /\ PlaceInv /\ NextInv /\ RunTypes
  BY TypesOfRuns DEF TimersInv
<1>2. /\ idCounter' = idCounter /\ kind' = kind /\ expires' = expires /\ of' = of
      /\ go' = go /\ stage' = stage /\ refused' = refused /\ late' = late
      /\ queueAlive' = queueAlive /\ UNCHANGED <<timerVars, flagVars>>
  BY DEF Forget, RunKeeps, timerVars, pastVars
<1>3. r \in owed /\ owed' = owed \ {r} /\ next' = [next EXCEPT ![r] = NoRun]
  BY DEF Forget
<1>4. /\ next' \in [Runs -> Runs \cup {NoRun}]
      /\ \A q \in Runs : next'[q] = IF q = r THEN NoRun ELSE next[q]
  BY <1>1, <1>3 DEF RunTypes
<1>5. TypeOK'
  BY <1>1, <1>2, <1>3, <1>4, OthersKept DEF TypeOK
<1>6. stage[r] \notin {"queued", "locked"} /\ kind[of[r]] # "sync"
  BY <1>1, <1>3 DEF PlaceInv
<1>7. ~Holds(r)' /\ \A q \in Runs : q # r => (Holds(q)' <=> Holds(q))
  BY <1>2, <1>3, <1>6 DEF Holds
<1>8. \A q \in Runs : Carries(q)' => Carries(q)
  BY <1>2, <1>7 DEF Carries
<1>9. PlaceInv'
  BY <1>1, <1>2, <1>3 DEF PlaceInv
<1>10. NextInv'
  BY <1>1, <1>2, <1>4, <1>7 DEF NextInv
<1>11. QED
  BY <1>2, <1>5, <1>8, <1>9, <1>10, NothingNew

(* A run that was refused, or whose flag is gone, ends at once.            *)
LEMMA BeginEnds ==
  ASSUME TimersInv, NEW r \in Runs, stage[r] = "queued", stage' = At(r, "free"),
         RunKeeps, UNCHANGED <<of, go, next, owed, pastVars>>
  PROVE  TimersInv'
<1>1. TypeOK /\ PlaceInv /\ NextInv /\ RunTypes
  BY TypesOfRuns DEF TimersInv
<1>2. /\ idCounter' = idCounter /\ kind' = kind /\ expires' = expires /\ of' = of /\ go' = go
      /\ next' = next /\ owed' = owed /\ refused' = refused /\ late' = late
      /\ queueAlive' = queueAlive /\ UNCHANGED <<timerVars, flagVars>>
  BY DEF RunKeeps, timerVars, pastVars
<1>3. /\ stage' \in [Runs -> Stages]
      /\ \A q \in Runs : stage'[q] = IF q = r THEN "free" ELSE stage[q]
  BY <1>1, StageTypes DEF Stages
<1>4. TypeOK'
  BY <1>1, <1>2, <1>3, OthersKept DEF TypeOK
<1>5. \A q \in Runs : (Holds(q)' <=> Holds(q)) /\ (Carries(q)' => Carries(q))
  BY <1>2, <1>3 DEF Holds, Carries
<1>6. PlaceInv'
  BY <1>1, <1>2, <1>3 DEF PlaceInv
<1>7. NextInv'
  BY <1>1, <1>2, <1>5 DEF NextInv
<1>8. QED
  BY <1>2, <1>4, <1>5, <1>6, <1>7, NothingNew

LEMMA BeginAfter ==
  ASSUME TimersInv, NEW r \in Runs, stage[r] = "queued", go[r], expires[of[r]] # "before",
         stage' = At(r, "locked"), RunKeeps, UNCHANGED <<of, go, next, owed, pastVars>>
  PROVE  TimersInv'
<1>1. TypeOK /\ PlaceInv /\ NextInv /\ RunTypes
  BY TypesOfRuns DEF TimersInv
<1>2. /\ idCounter' = idCounter /\ kind' = kind /\ expires' = expires /\ of' = of /\ go' = go
      /\ next' = next /\ owed' = owed /\ refused' = refused /\ late' = late
      /\ queueAlive' = queueAlive /\ UNCHANGED <<timerVars, flagVars>>
  BY DEF RunKeeps, timerVars, pastVars
<1>3. /\ stage' \in [Runs -> Stages]
      /\ \A q \in Runs : stage'[q] = IF q = r THEN "locked" ELSE stage[q]
  BY <1>1, StageTypes DEF Stages
<1>4. TypeOK'
  BY <1>1, <1>2, <1>3, OthersKept DEF TypeOK
<1>5. \A q \in Runs : /\ q # r => (Holds(q)' <=> Holds(q))
                      /\ Carries(q)' => Carries(q)
  BY <1>2, <1>3 DEF Holds, Carries
<1>6. PlaceInv'
  BY <1>1, <1>2, <1>3 DEF PlaceInv
<1>7. NextInv'
  <2>1. r \notin owed /\ ~Holds(r) /\ next[r] = NoRun
    BY <1>1 DEF PlaceInv, NextInv, Holds
  <2>2. QED
    BY <1>1, <1>2, <1>5, <2>1 DEF NextInv
<1>8. QED
  BY <1>2, <1>4, <1>5, <1>6, <1>7, NothingNew

(* A period that is counted from before the call: the next run is posted   *)
(* and takes over.                                                         *)
LEMMA BeginBefore ==
  ASSUME TimersInv, NEW r \in Runs, stage[r] = "queued", go[r], expires[of[r]] = "before",
         NEW n \in Free, PostRun(n, of[r], At(r, "locked")), next' = [next EXCEPT ![r] = n],
         RunKeeps, UNCHANGED <<owed, pastVars>>
  PROVE  TimersInv'
<1>1. TypeOK /\ PlaceInv /\ NextInv /\ CarrierInv /\ RefusedInv /\ RunTypes
  BY TypesOfRuns DEF TimersInv
<1>2. /\ idCounter' = idCounter /\ kind' = kind /\ expires' = expires
      /\ owed' = owed /\ refused' = refused /\ late' = late
      /\ queueAlive' = queueAlive /\ UNCHANGED <<timerVars, flagVars>>
  BY DEF RunKeeps, timerVars, pastVars
<1>3. of[r] \in 1..idCounter /\ of[r] \in 0..MaxTimers
  BY HasTimer
<1>4. /\ n \in Runs /\ n # r /\ stage[n] = "free" /\ n \notin owed /\ ~Holds(n) /\ ~Carries(n)
      /\ next[n] = NoRun
      /\ \A q \in Runs : next[q] # n
  BY FreePlace
<1>5. /\ stage' \in [Runs -> Stages] /\ of' \in [Runs -> 0..MaxTimers] /\ go' \in [Runs -> BOOLEAN]
      /\ \A q \in Runs : /\ stage'[q] = IF q = n THEN "queued" ELSE At(r, "locked")[q]
                         /\ of'[q] = IF q = n THEN of[r] ELSE of[q]
                         /\ go'[q] = IF q = n THEN TRUE ELSE go[q]
  <2>1. At(r, "locked") \in [Runs -> Stages]
    BY <1>1, StageTypes DEF Stages
  <2>2. QED
    BY <1>1, <1>3, <2>1, Posts
<1>6. \A q \in Runs : stage'[q] = IF q = n THEN "queued"
                                  ELSE IF q = r THEN "locked" ELSE stage[q]
  <2>1. \A q \in Runs : At(r, "locked")[q] = IF q = r THEN "locked" ELSE stage[q]
    BY <1>1, StageTypes DEF Stages
  <2>2. QED
    BY <1>5, <2>1
<1>7. /\ next' \in [Runs -> Runs \cup {NoRun}]
      /\ \A q \in Runs : next'[q] = IF q = r THEN n ELSE next[q]
  BY <1>1, <1>4 DEF RunTypes
<1>8. TypeOK'
  BY <1>1, <1>2, <1>5, <1>7, OthersKept DEF TypeOK
<1>9. r \notin owed /\ n # NoRun
  BY <1>1, <1>4, RunsAssumption DEF PlaceInv
<1>10. /\ Holds(r)' /\ ~Holds(n)'
       /\ \A q \in Runs : q \notin {r, n} => (Holds(q)' <=> Holds(q))
  BY <1>2, <1>4, <1>5, <1>6 DEF Holds
<1>11. /\ Carries(r) /\ ~Carries(r)'
       /\ \A q \in Runs : (q # n /\ Carries(q)') => Carries(q)
  BY <1>2, <1>4, <1>5, <1>6, <1>9 DEF Holds, Carries
<1>12. PlaceInv'
  <2>1. of[r] \in 0..idCounter
    BY <1>1 DEF PlaceInv
  <2>2. QED
    BY <1>1, <1>2, <1>3, <1>4, <1>5, <1>6, <1>9, <2>1 DEF PlaceInv
<1>13. NextInv'
  <2>1. ASSUME NEW q \in Runs
        PROVE  /\ next'[q] # NoRun <=> (Holds(q)' /\ expires'[of'[q]] = "before")
               /\ next'[q] # NoRun => of'[next'[q]] = of'[q]
    <3>1. CASE q = r
      BY <1>2, <1>4, <1>5, <1>7, <1>9, <1>10, <3>1
    <3>2. CASE q = n
      BY <1>4, <1>7, <1>10, <3>2
    <3>3. CASE q \notin {r, n}
      <4>1. next'[q] = next[q] /\ of'[q] = of[q] /\ (Holds(q)' <=> Holds(q))
        BY <1>5, <1>7, <1>10, <3>3
      <4>2. next[q] # NoRun => next[q] \in Runs /\ of'[next[q]] = of[next[q]]
        BY <1>1, <1>4, <1>5 DEF RunTypes
      <4>3. /\ next[q] # NoRun <=> (Holds(q) /\ expires[of[q]] = "before")
            /\ next[q] # NoRun => of[next[q]] = of[q]
        BY <1>1 DEF NextInv
      <4>4. QED
        BY <1>2, <4>1, <4>2, <4>3
    <3>4. QED
      BY <3>1, <3>2, <3>3
  <2>2. QED
    BY <2>1 DEF NextInv
<1>14. CarrierInv'
  BY <1>1, <1>4, <1>5, <1>11 DEF CarrierInv
<1>15. RefusedInv'
  <2>1. of[r] \notin refused
    BY <1>1, <1>11 DEF RefusedInv
  <2>2. QED
    BY <1>1, <1>2, <1>4, <1>5, <1>11, <2>1 DEF RefusedInv
<1>16. QED
  BY <1>8, <1>12, <1>13, <1>14, <1>15 DEF TimersInv

LEMMA BeginKeeps ==
  ASSUME TimersInv, NEW r \in Runs, Begin(r)
  PROVE  TimersInv'
<1>1. stage[r] = "queued" /\ RunKeeps /\ UNCHANGED <<owed, pastVars>>
  BY DEF Begin
<1>2. CASE ~go[r] \/ ~FlagAlive(of[r])
  BY <1>1, <1>2, BeginEnds DEF Begin
<1>3. CASE go[r] /\ FlagAlive(of[r]) /\ expires[of[r]] # "before"
  BY <1>1, <1>3, BeginAfter DEF Begin
<1>4. CASE go[r] /\ FlagAlive(of[r]) /\ expires[of[r]] = "before"
  <2>1. PICK n \in Free : /\ PostRun(n, of[r], At(r, "locked"))
                          /\ next' = [next EXCEPT ![r] = n]
    BY <1>4 DEF Begin
  <2>2. QED
    BY <1>1, <1>4, <2>1, BeginBefore
<1>5. QED
  BY <1>2, <1>3, <1>4

-----------------------------------------------------------------------------
(* A decision.  In all its uses r holds on before and not after.           *)

LEMMA DecideAgain ==
  ASSUME TimersInv, NEW r \in Runs, NEW s \in [Runs -> Stages], Holds(r),
         \A q \in Runs : q # r => s[q] = stage[q],
         s[r] \in {"called", "leaving", "free"}, s[r] = "called" => kind[of[r]] # "sync",
         owed' = owed \ {r}, RunKeeps, pastVars' = pastVars,
         expires[of[r]] = "after", NEW n \in Free, PostRun(n, of[r], s),
         next' = [next EXCEPT ![r] = NoRun]
  PROVE  TimersInv'
<1>1. TypeOK /\ PlaceInv /\ NextInv /\ CarrierInv /\ RefusedInv /\ RunTypes
  BY TypesOfRuns DEF TimersInv
<1>2. /\ idCounter' = idCounter /\ kind' = kind /\ expires' = expires
      /\ refused' = refused /\ late' = late
      /\ queueAlive' = queueAlive /\ UNCHANGED <<timerVars, flagVars>>
  BY DEF RunKeeps, timerVars, pastVars
<1>3. of[r] \in 1..idCounter /\ of[r] \in 0..MaxTimers /\ of[r] \in 0..idCounter
  BY <1>1, HasTimer DEF Holds, PlaceInv
<1>4. /\ n \in Runs /\ n # r /\ stage[n] = "free" /\ n \notin owed /\ ~Holds(n) /\ ~Carries(n)
      /\ next[n] = NoRun
      /\ \A q \in Runs : next[q] # n
  BY FreePlace
<1>5. /\ stage' \in [Runs -> Stages] /\ of' \in [Runs -> 0..MaxTimers] /\ go' \in [Runs -> BOOLEAN]
      /\ \A q \in Runs : /\ stage'[q] = IF q = n THEN "queued" ELSE s[q]
                         /\ of'[q] = IF q = n THEN of[r] ELSE of[q]
                         /\ go'[q] = IF q = n THEN TRUE ELSE go[q]
  BY <1>1, <1>3, <1>4 DEF PostRun, RunTypes, Stages
<1>6. /\ next' \in [Runs -> Runs \cup {NoRun}]
      /\ \A q \in Runs : next'[q] = IF q = r THEN NoRun ELSE next[q]
  BY <1>1 DEF RunTypes
<1>7. TypeOK'
  BY <1>1, <1>2, <1>5, <1>6, OthersKept DEF TypeOK, pastVars
<1>8. /\ ~Holds(r)' /\ ~Holds(n)'
      /\ \A q \in Runs : q \notin {r, n} => (Holds(q)' <=> Holds(q))
  BY <1>2, <1>4, <1>5 DEF Holds
<1>9. /\ Carries(r) /\ ~Carries(r)'
      /\ \A q \in Runs : q \notin {r, n} => (Carries(q)' => Carries(q))
  BY <1>2, <1>4, <1>5, <1>8 DEF Carries
<1>10. PlaceInv'
  BY <1>1, <1>2, <1>3, <1>4, <1>5 DEF PlaceInv
<1>11. NextInv'
  <2>1. ASSUME NEW q \in Runs
        PROVE  /\ next'[q] # NoRun <=> (Holds(q)' /\ expires'[of'[q]] = "before")
               /\ next'[q] # NoRun => of'[next'[q]] = of'[q]
    <3>1. CASE q \in {r, n}
      BY <1>4, <1>6, <1>8, <3>1
    <3>2. CASE q \notin {r, n}
      <4>1. next'[q] = next[q] /\ of'[q] = of[q] /\ (Holds(q)' <=> Holds(q))
        BY <1>5, <1>6, <1>8, <3>2
      <4>2. next[q] # NoRun => next[q] \in Runs /\ of'[next[q]] = of[next[q]]
        BY <1>1, <1>4, <1>5 DEF RunTypes
      <4>3. /\ next[q] # NoRun <=> (Holds(q) /\ expires[of[q]] = "before")
            /\ next[q] # NoRun => of[next[q]] = of[q]
        BY <1>1 DEF NextInv
      <4>4. QED
        BY <1>2, <4>1, <4>2, <4>3
    <3>3. QED
      BY <3>1, <3>2
  <2>2. QED
    BY <2>1 DEF NextInv
<1>12. CarrierInv'
  <2>1. \A q \in Runs : q # n /\ Carries(q)' => q # r /\ Carries(q) /\ of'[q] = of[q] /\ of[q] # of[r]
    BY <1>1, <1>5, <1>9 DEF CarrierInv
  <2>2. of'[n] = of[r]
    BY <1>4, <1>5
  <2>3. QED
    BY <1>1, <2>1, <2>2 DEF CarrierInv
<1>13. RefusedInv'
  <2>1. of[r] \notin refused
    BY <1>1, <1>9 DEF RefusedInv
  <2>2. QED
    BY <1>1, <1>2, <1>4, <1>5, <1>9, <2>1 DEF RefusedInv
<1>14. QED
  BY <1>7, <1>10, <1>11, <1>12, <1>13 DEF TimersInv

(* Nothing is posted: the timer ends here, or its next run is told.        *)
LEMMA DecideOnly ==
  ASSUME TimersInv, NEW r \in Runs, NEW s \in [Runs -> Stages], Holds(r),
         \A q \in Runs : q # r => s[q] = stage[q],
         s[r] \in {"called", "leaving", "free"}, s[r] = "called" => kind[of[r]] # "sync",
         owed' = owed \ {r}, RunKeeps, stage' = s, of' = of,
         go' \in [Runs -> BOOLEAN], \A q \in Runs : go'[q] => go[q],
         next' = [next EXCEPT ![r] = NoRun],
         refused' \subseteq refused \cup {of[r]}, late' \subseteq late \cup {of[r]},
         (expires[of[r]] = "before" /\ refused' # refused) => stage[next[r]] = "queued" /\ ~go'[next[r]]
  PROVE  TimersInv'
<1>1. TypeOK /\ PlaceInv /\ NextInv /\ CarrierInv /\ RefusedInv /\ RunTypes
  BY TypesOfRuns DEF TimersInv
<1>2. /\ idCounter' = idCounter /\ kind' = kind /\ expires' = expires
      /\ queueAlive' = queueAlive /\ UNCHANGED <<timerVars, flagVars>>
  BY DEF RunKeeps, timerVars
<1>3. of[r] \in 1..idCounter /\ of[r] \in Timer /\ expires[of[r]] \in {"after", "before"}
  BY HasTimer DEF Holds
<1>4. /\ next' \in [Runs -> Runs \cup {NoRun}]
      /\ \A q \in Runs : next'[q] = IF q = r THEN NoRun ELSE next[q]
  BY <1>1 DEF RunTypes
<1>5. TypeOK'
  BY <1>1, <1>2, <1>3, <1>4, OthersKept DEF TypeOK
<1>6. ~Holds(r)' /\ \A q \in Runs : q # r => (Holds(q)' <=> Holds(q))
  BY <1>2 DEF Holds
<1>7. ~Carries(r)' /\ \A q \in Runs : Carries(q)' => Carries(q)
  BY <1>2, <1>6 DEF Carries
<1>8. PlaceInv'
  BY <1>1, <1>2, <1>3 DEF PlaceInv
<1>9. NextInv'
  BY <1>1, <1>2, <1>4, <1>6 DEF NextInv
<1>10. CarrierInv'
  BY <1>1, <1>7 DEF CarrierInv
<1>11. RefusedInv'
  <2>1. refused' \subseteq 1..idCounter'
    BY <1>1, <1>2, <1>3 DEF RefusedInv
  <2>2. ASSUME NEW q \in Runs, of'[q] \in refused', Carries(q)'
        PROVE  expires'[of'[q]] = "before" /\ ~go'[q]
    <3>1. q # r /\ Carries(q)
      BY <1>7, <2>2
    <3>2. CASE of[q] \in refused
      BY <1>1, <1>2, <3>1, <3>2 DEF RefusedInv
    <3>3. CASE of[q] \notin refused
      <4>1. of[q] = of[r] /\ refused' # refused
        BY <2>2, <3>3
      <4>2. ~Carries(r)
        BY <1>1, <3>1, <4>1 DEF CarrierInv
      <4>3. expires[of[r]] = "before"
        BY <1>3, <4>2 DEF Carries
      <4>4. next[r] \in Runs /\ of[next[r]] = of[r] /\ Carries(next[r]) /\ ~go'[next[r]]
        BY <1>1, <4>1, <4>3 DEF NextInv, Carries, RunTypes
      <4>5. q = next[r]
        BY <1>1, <3>1, <4>1, <4>4 DEF CarrierInv
      <4>6. QED
        BY <1>2, <4>1, <4>3, <4>4, <4>5
    <3>4. QED
      BY <3>2, <3>3
  <2>3. QED
    BY <2>1, <2>2 DEF RefusedInv
<1>12. QED
  BY <1>5, <1>8, <1>9, <1>10, <1>11 DEF TimersInv

LEMMA DecideKeeps ==
  ASSUME TimersInv, NEW r \in Runs, NEW s \in [Runs -> Stages], Holds(r),
         \A q \in Runs : q # r => s[q] = stage[q],
         s[r] \in {"called", "leaving", "free"}, s[r] = "called" => kind[of[r]] # "sync",
         owed' = owed \ {r}, RunKeeps, NEW ready \in BOOLEAN, Decide(r, ready, s)
  PROVE  TimersInv'
<1>1. RunTypes
  BY TypesOfRuns DEF TimersInv
<1>2. expires[of[r]] \in {"after", "before"}
  BY HasTimer DEF Holds
<1>3. next' = [next EXCEPT ![r] = NoRun]
  BY DEF Decide
<1>4. CASE expires[of[r]] = "after"
  <2>1. CASE ready /\ queueAlive
    <3>1. pastVars' = pastVars /\ \E n \in Free : PostRun(n, of[r], s)
      BY <1>4, <2>1 DEF Decide, Again, pastVars
    <3>2. QED
      BY <1>3, <1>4, <3>1, DecideAgain
  <2>2. CASE ~ready \/ ~queueAlive
    <3>1. stage' = s /\ of' = of /\ go' = go
      BY <1>4, <2>2 DEF Decide, Again
    <3>2. refused' \subseteq refused \cup {of[r]} /\ late' = late
      BY <1>4 DEF Decide, pastVars
    <3>3. go' \in [Runs -> BOOLEAN] /\ \A q \in Runs : go'[q] => go[q]
      BY <1>1, <3>1 DEF RunTypes
    <3>4. QED
      BY <1>3, <1>4, <3>1, <3>2, <3>3, DecideOnly
  <2>3. QED
    BY <2>1, <2>2
<1>5. CASE expires[of[r]] = "before"
  <2>1. /\ stage' = s /\ of' = of
        /\ go' = IF ready THEN go ELSE [go EXCEPT ![next[r]] = FALSE]
    BY <1>5 DEF Decide
  <2>2. next[r] \in Runs
    BY <1>1, <1>5 DEF TimersInv, NextInv, RunTypes
  <2>3. /\ go' \in [Runs -> BOOLEAN] /\ \A q \in Runs : go'[q] => go[q]
        /\ ~ready => ~go'[next[r]]
    BY <1>1, <2>1, <2>2 DEF RunTypes
  <2>4. /\ refused' \subseteq refused \cup {of[r]} /\ late' \subseteq late \cup {of[r]}
        /\ refused' # refused => ~ready /\ stage[next[r]] = "queued"
    BY <1>5 DEF Decide, pastVars
  <2>5. QED
    BY <1>3, <1>5, <2>1, <2>3, <2>4, DecideOnly
<1>6. QED
  BY <1>2, <1>4, <1>5

LEMMA PassOverKeeps ==
  ASSUME TimersInv, NEW r \in Runs, PassOver(r)
  PROVE  TimersInv'
<1>1. PICK ready \in BOOLEAN : Decide(r, ready, At(r, "leaving"))
  BY DEF PassOver
<1>2. /\ At(r, "leaving") \in [Runs -> Stages]
      /\ \A q \in Runs : At(r, "leaving")[q] = IF q = r THEN "leaving" ELSE stage[q]
  BY StageTypes DEF TimersInv, Stages
<1>3. stage[r] = "locked" /\ RunKeeps /\ owed' = owed /\ r \notin owed
  BY DEF PassOver, TimersInv, PlaceInv
<1>4. Holds(r) /\ owed' = owed \ {r}
  BY <1>3 DEF Holds
<1>5. QED
  BY <1>1, <1>2, <1>3, <1>4, DecideKeeps

LEMMA ReturnKeeps ==
  ASSUME TimersInv, NEW r \in Runs, Return(r)
  PROVE  TimersInv'
<1>1. stage[r] = "called" /\ RunKeeps /\ owed' = owed
  BY DEF Return
<1>2. CASE kind[of[r]] = "sync"
  <2>1. PICK ready \in BOOLEAN : Decide(r, ready, At(r, "leaving"))
    BY <1>2 DEF Return
  <2>2. /\ At(r, "leaving") \in [Runs -> Stages]
        /\ \A q \in Runs : At(r, "leaving")[q] = IF q = r THEN "leaving" ELSE stage[q]
    BY StageTypes DEF TimersInv, Stages
  <2>3. Holds(r) /\ owed' = owed \ {r}
    BY <1>1, <1>2 DEF Holds, TimersInv, PlaceInv
  <2>4. QED
    BY <1>1, <2>1, <2>2, <2>3, DecideKeeps
<1>3. CASE kind[of[r]] # "sync"
  BY <1>1, <1>3, StageKeeps DEF Return
<1>4. QED
  BY <1>2, <1>3

LEMMA TellKeeps ==
  ASSUME TimersInv, NEW r \in Runs, r \in owed, NEW ready \in BOOLEAN, Tell(r, ready)
  PROVE  TimersInv'
<1>1. stage \in [Runs -> Stages] /\ Holds(r)
  BY DEF TimersInv, TypeOK, Holds
<1>2. /\ stage[r] \in {"called", "leaving", "free"}
      /\ stage[r] = "called" => kind[of[r]] # "sync"
  BY <1>1 DEF TimersInv, PlaceInv, Stages
<1>3. owed' = owed \ {r} /\ RunKeeps /\ Decide(r, ready, stage)
  BY DEF Tell
<1>4. QED
  BY <1>1, <1>2, <1>3, DecideKeeps

LEMMA TimersStep == TimersInv /\ [Next]_vars => TimersInv'
<1> SUFFICES ASSUME TimersInv, [Next]_vars PROVE TimersInv'
  OBVIOUS
<1>1. CASE ManagerStep
  <2>1. CASE Reset
    <3>1. TypeOK' /\ ManagerKeeps
      BY <2>1 DEF Reset, ManagerKeeps, TimersInv, TypeOK, timerVars, runVars, pastVars
    <3>2. QED
      BY <3>1, RunsAlone DEF ManagerKeeps
  <2>2. CASE DestroyQueue \/ ClearQueue
    <3>1. DropPosted /\ queueAlive' \in BOOLEAN
      BY <2>2 DEF DestroyQueue, ClearQueue, TimersInv, TypeOK
    <3>2. QED
      BY <3>1, DropKeeps
  <2>3. QED
    BY <1>1, <2>1, <2>2, CreateKeeps, MapKeeps DEF ManagerStep
<1>2. ASSUME NEW r \in Runs, RunStep(r) PROVE TimersInv'
  BY <1>2, BeginKeeps, CallKeeps, PassOverKeeps, ReturnKeeps, LeaveKeeps DEF RunStep
<1>3. ASSUME NEW r \in Runs, Answer(r) \/ Forget(r) PROVE TimersInv'
  BY <1>3, TellKeeps, ForgetKeeps DEF Answer
<1>4. CASE UNCHANGED vars
  <2>1. UNCHANGED <<timerVars, runVars, pastVars>> /\ TypeOK'
    BY <1>4 DEF vars, timerVars, runVars, pastVars, TimersInv, TypeOK
  <2>2. QED
    BY <2>1, RunsAlone
<1>5. QED
  BY <1>1, <1>2, <1>3, <1>4 DEF Next

LEMMA TimersInvHolds == Spec => []TimersInv
BY InitTimers, TimersStep, PTL DEF Spec

-----------------------------------------------------------------------------
(* Which runs a step brings to a thread, and what it leaves to the owed.   *)

(* Who is on a thread afterwards was there, or was taken from the queue    *)
(* with a flag and without a refusal; nobody who owes changes his timer.   *)
Comes(q) == /\ of'[q] = of[q]
            /\ stage'[q] = "called" => OnThread(q)
            /\ OnThread(q) \/ (stage[q] = "queued" /\ go[q] /\ FlagAlive(of[q]))
Stays(q) == of'[q] = of[q] /\ kind'[of[q]] = kind[of[q]]
RunsMove == \A q \in Runs : (OnThread(q)' => Comes(q)) /\ (q \in owed => Stays(q))

LEMMA PostMoves ==
  ASSUME TimersInv, NEW n \in Free, NEW t \in 0..MaxTimers, NEW s \in [Runs -> Stages],
         PostRun(n, t, s)
  PROVE  /\ \A q \in Runs : OnThread(q)' => of'[q] = of[q] /\ stage'[q] = s[q]
         /\ \A q \in owed : of'[q] = of[q]
<1>1. TypeOK /\ n \in Runs /\ n \notin owed /\ owed \subseteq Runs
  BY FreePlace DEF TimersInv, TypeOK
<1>2. \A q \in Runs : /\ stage'[q] = IF q = n THEN "queued" ELSE s[q]
                      /\ of'[q] = IF q = n THEN t ELSE of[q]
  BY <1>1 DEF PostRun, TypeOK, Stages
<1>3. QED
  BY <1>1, <1>2 DEF OnThread

LEMMA DecideMoves ==
  ASSUME TimersInv, NEW r \in Runs, NEW ready \in BOOLEAN, NEW s \in [Runs -> Stages],
         \A q \in Runs : s[q] = stage[q] \/ (q = r /\ s[q] = "leaving" /\ OnThread(r)),
         Decide(r, ready, s), RunKeeps
  PROVE  RunsMove
<1>1. of[r] \in 0..MaxTimers /\ owed \subseteq Runs /\ kind' = kind
  BY DEF TimersInv, TypeOK, RunKeeps, timerVars
<1>2. \/ stage' = s /\ of' = of
      \/ \E n \in Free : PostRun(n, of[r], s)
  BY DEF Decide, Again
<1>3. /\ \A q \in Runs : OnThread(q)' => of'[q] = of[q] /\ stage'[q] = s[q]
      /\ \A q \in owed : of'[q] = of[q]
  BY <1>1, <1>2, PostMoves DEF OnThread
<1>4. QED
  BY <1>1, <1>3 DEF RunsMove, Comes, Stays, OnThread

LEMMA BeginMoves ==
  ASSUME TimersInv, NEW r \in Runs, Begin(r)
  PROVE  RunsMove
<1>1. /\ of[r] \in 0..MaxTimers /\ owed \subseteq Runs /\ kind' = kind /\ TypeOK
      /\ stage[r] = "queued"
  BY DEF TimersInv, TypeOK, Begin, RunKeeps, timerVars
<1>2. CASE ~go[r] \/ ~FlagAlive(of[r])
  <2>1. stage' = At(r, "free") /\ of' = of
    BY <1>2 DEF Begin
  <2>2. \A q \in Runs : stage'[q] = IF q = r THEN "free" ELSE stage[q]
    BY <1>1, <2>1, StageTypes DEF Stages
  <2>3. QED
    BY <1>1, <2>1, <2>2 DEF RunsMove, Comes, Stays, OnThread
<1>3. CASE go[r] /\ FlagAlive(of[r])
  <2>1. /\ At(r, "locked") \in [Runs -> Stages]
        /\ \A q \in Runs : At(r, "locked")[q] = IF q = r THEN "locked" ELSE stage[q]
    BY <1>1, StageTypes DEF Stages
  <2>2. \/ stage' = At(r, "locked") /\ of' = of
        \/ \E n \in Free : PostRun(n, of[r], At(r, "locked"))
    BY <1>3 DEF Begin
  <2>3. /\ \A q \in Runs : OnThread(q)' => of'[q] = of[q] /\ stage'[q] = At(r, "locked")[q]
        /\ \A q \in owed : of'[q] = of[q]
    BY <1>1, <2>1, <2>2, PostMoves DEF OnThread
  <2>4. QED
    BY <1>1, <1>3, <2>1, <2>3 DEF RunsMove, Comes, Stays, OnThread
<1>4. QED
  BY <1>2, <1>3

LEMMA OthersMove ==
  ASSUME NEW r \in Runs, kind' = kind, of' = of, TypeOK,
         \A q \in Runs : stage'[q] = stage[q] \/ ~OnThread(q)' \/ (q = r /\ OnThread(r))
  PROVE  RunsMove
BY DEF RunsMove, Comes, Stays, OnThread, TypeOK

LEMMA CreateMoves ==
  ASSUME TimersInv, NEW k \in Kinds, NEW e \in Expires, Create(k, e)
  PROVE  RunsMove
<1>1. stage \in [Runs -> Stages] /\ owed \subseteq Runs /\ RunTypes
  BY TypesOfRuns DEF TimersInv, TypeOK
<1>2. idCounter' = idCounter + 1 /\ idCounter' \in 0..MaxTimers
  BY <1>1 DEF Create, RunTypes
<1>3. PICK n \in Free : PostRun(n, idCounter', stage)
  BY DEF Create
<1>4. /\ \A q \in Runs : OnThread(q)' => of'[q] = of[q] /\ stage'[q] = stage[q]
      /\ \A q \in owed : of'[q] = of[q]
  BY <1>1, <1>2, <1>3, PostMoves
<1>5. \A q \in owed : of[q] \in 1..idCounter
  BY <1>1 DEF TimersInv, PlaceInv
<1>6. kind' = [kind EXCEPT ![idCounter'] = k] /\ kind \in [Timer -> AllKinds]
  BY DEF Create, TimersInv, TypeOK
<1>7. \A t \in 1..idCounter : t # idCounter' /\ t \in Timer
  BY <1>1, <1>2 DEF RunTypes, Timer
<1>8. \A q \in owed : kind'[of[q]] = kind[of[q]]
  BY <1>5, <1>6, <1>7
<1>9. QED
  BY <1>4, <1>8 DEF RunsMove, Comes, Stays, OnThread

LEMMA StepMoves == TimersInv /\ [Next]_vars => RunsMove
<1> SUFFICES ASSUME TimersInv, [Next]_vars PROVE RunsMove
  OBVIOUS
<1>0. TypeOK
  BY DEF TimersInv
<1>1. ASSUME stage' = stage, of' = of, kind' = kind PROVE RunsMove
  BY <1>1 DEF RunsMove, Comes, Stays, OnThread
<1>2. CASE ManagerStep
  <2>1. CASE DestroyQueue \/ ClearQueue
    <3>1. /\ kind' = kind /\ of' = of
          /\ \A q \in Runs : stage'[q] = IF stage[q] = "queued" THEN "free" ELSE stage[q]
      BY <2>1 DEF DestroyQueue, ClearQueue, DropPosted, timerVars
    <3>2. QED
      BY <3>1 DEF RunsMove, Comes, Stays, OnThread
  <2>2. CASE Reset \/ \E t \in Timer : Detach(t) \/ Release(t) \/ DropHandle(t) \/ Switch(t)
    BY <1>1, <2>2 DEF Reset, Detach, Release, DropHandle, Switch, ManagerKeeps, timerVars, runVars
  <2>3. QED
    BY <1>2, <2>1, <2>2, CreateMoves DEF ManagerStep
<1>3. ASSUME NEW r \in Runs, RunStep(r) PROVE RunsMove
  <2>1. CASE Call(r)
    <3>1. /\ stage[r] = "locked" /\ kind' = kind /\ of' = of
          /\ \A q \in Runs : stage'[q] = IF q = r THEN "called" ELSE stage[q]
      BY <1>0, <2>1, StageTypes DEF Call, RunKeeps, timerVars, Stages
    <3>2. QED
      BY <1>0, <3>1, OthersMove DEF OnThread
  <2>2. CASE Leave(r)
    <3>1. /\ kind' = kind /\ of' = of
          /\ \A q \in Runs : stage'[q] = IF q = r THEN "free" ELSE stage[q]
      BY <1>0, <2>2, StageTypes DEF Leave, RunKeeps, timerVars, Stages
    <3>2. QED
      BY <1>0, <3>1, OthersMove DEF OnThread
  <2>3. /\ At(r, "leaving") \in [Runs -> Stages]
        /\ \A q \in Runs : At(r, "leaving")[q] = IF q = r THEN "leaving" ELSE stage[q]
    BY <1>0, StageTypes DEF Stages
  <2>4. CASE \E ready \in BOOLEAN : OnThread(r) /\ RunKeeps /\ Decide(r, ready, At(r, "leaving"))
    BY <2>3, <2>4, DecideMoves
  <2>5. CASE PassOver(r)
    BY <2>4, <2>5 DEF PassOver, OnThread
  <2>6. CASE Return(r)
    <3>1. CASE kind[of[r]] = "sync"
      BY <2>4, <2>6, <3>1 DEF Return, OnThread
    <3>2. CASE kind[of[r]] # "sync"
      <4>1. stage' = At(r, "leaving") /\ of' = of /\ kind' = kind /\ stage[r] = "called"
        BY <2>6, <3>2 DEF Return, RunKeeps, timerVars
      <4>2. QED
        BY <1>0, <2>3, <4>1, OthersMove DEF OnThread
    <3>3. QED
      BY <3>1, <3>2
  <2>7. QED
    BY <1>3, <2>1, <2>2, <2>5, <2>6, BeginMoves DEF RunStep
<1>4. ASSUME NEW r \in Runs, Answer(r) PROVE RunsMove
  <2>1. PICK ready \in BOOLEAN : Decide(r, ready, stage) /\ RunKeeps
    BY <1>4 DEF Answer, Tell
  <2>2. stage \in [Runs -> Stages]
    BY <1>0 DEF TypeOK
  <2>3. QED
    BY <2>1, <2>2, DecideMoves
<1>5. ASSUME NEW r \in Runs, Forget(r) PROVE RunsMove
  BY <1>1, <1>5 DEF Forget, RunKeeps, timerVars
<1>6. CASE UNCHANGED vars
  BY <1>1, <1>6 DEF vars
<1>7. QED
  BY <1>2, <1>3, <1>4, <1>5, <1>6 DEF Next

(* No step gives the flag of an existing timer to the map or to a client   *)
(* who had it not from the map.                                            *)
LEMMA FlagsOut ==
  ASSUME TimersInv, [Next]_vars, NEW t \in 1..idCounter, t \notin idMap \cup handles
  PROVE  t \notin idMap' \cup handles'
<1>1. idCounter \in Nat
  BY TypesOfRuns DEF TimersInv, RunTypes
<1>2. ASSUME UNCHANGED flagVars PROVE t \notin idMap' \cup handles'
  BY <1>2 DEF flagVars
<1>3. CASE ManagerStep
  <2>1. ASSUME NEW k \in Kinds, NEW e \in Expires, Create(k, e)
        PROVE  t \notin idMap' \cup handles'
    BY <1>1, <2>1 DEF Create
  <2>2. CASE DestroyQueue \/ ClearQueue
    BY <1>2, <2>2 DEF DestroyQueue, ClearQueue, DropPosted
  <2>3. CASE Reset
    BY <2>3 DEF Reset
  <2>4. ASSUME NEW u \in Timer, Detach(u) \/ Release(u) \/ DropHandle(u) \/ Switch(u)
        PROVE  t \notin idMap' \cup handles'
    BY <2>4 DEF Detach, Release, DropHandle, Switch
  <2>5. QED
    BY <1>3, <2>1, <2>2, <2>3, <2>4 DEF ManagerStep
<1>4. ASSUME NEW r \in Runs, RunStep(r) PROVE t \notin idMap' \cup handles'
  BY <1>2, <1>4 DEF RunStep, Begin, Call, PassOver, Return, Leave, RunKeeps
<1>5. ASSUME NEW r \in Runs, Answer(r) \/ Forget(r) PROVE t \notin idMap' \cup handles'
  BY <1>2, <1>5 DEF Answer, Tell, Forget, RunKeeps
<1>6. CASE UNCHANGED vars
  BY <1>6 DEF vars
<1>7. QED
  BY <1>3, <1>4, <1>5, <1>6 DEF Next

-----------------------------------------------------------------------------
(* Every variable of the timers keeps its type.                            *)
THEOREM TimersTypeCorrect == Spec => []TypeOK
<1>1. TimersInv => TypeOK
  BY DEF TimersInv
<1>2. QED
  BY <1>1, TimersInvHolds, PTL

(* Whatever overlaps, a timer never goes on from two runs.                 *)
THEOREM OneChainHolds == Spec => []OneChain
<1>1. TimersInv => OneChain
  <2> SUFFICES ASSUME TimersInv, NEW t \in Timer, NEW r \in Chain(t), NEW q \in Chain(t)
               PROVE  r = q
    BY DEF OneChain
  <2>1. r \in Runs /\ q \in Runs /\ of[r] = t /\ of[q] = t /\ Carries(r) /\ Carries(q)
    BY DEF Chain, Carries, Holds
  <2>2. QED
    BY <2>1 DEF TimersInv, CarrierInv
<1>2. QED
  BY <1>1, TimersInvHolds, PTL

(* A timer whose flag nobody holds is never called again.                  *)
THEOREM CutIsFinalHolds == Spec => CutIsFinal
<1>1. ASSUME TimersInv, [Next]_vars, NEW t \in 1..idCounter, ~FlagAlive(t)
      PROVE  /\ ~FlagAlive(t)'
             /\ \A r \in Runs : (stage[r] # "called" /\ of[r] = t) => stage'[r] # "called"
  <2>1. RunsMove
    BY <1>1, StepMoves
  <2>2. t \notin idMap \cup handles /\ \A r \in Runs : of[r] = t => ~OnThread(r)
    BY <1>1 DEF FlagAlive
  <2>3. t \notin idMap' \cup handles'
    BY <1>1, <2>2, FlagsOut
  <2>4. \A r \in Runs : of'[r] = t => ~OnThread(r)'
    BY <1>1, <2>1, <2>2 DEF RunsMove, Comes
  <2>5. \A r \in Runs : of[r] = t => stage'[r] # "called"
    <3>1. \A r \in Runs : stage'[r] = "called" => OnThread(r)'
      BY DEF OnThread
    <3>2. QED
      BY <2>1, <2>2, <3>1 DEF RunsMove, Comes
  <2>6. QED
    BY <2>3, <2>4, <2>5 DEF FlagAlive
<1>2. TimersInv /\ [Next]_vars =>
        [\A t \in 1..idCounter :
           ~FlagAlive(t) => /\ ~FlagAlive(t)'
                            /\ \A r \in Runs : (stage[r] # "called" /\ of[r] = t)
                                                 => stage'[r] # "called"]_vars
  BY <1>1
<1>3. QED
  BY <1>2, TimersInvHolds, PTL DEF Spec, CutIsFinal

(* A refusal that came before the next run began ends the timer.           *)
THEOREM RefusalObeyedHolds == Spec => RefusalObeyed
<1>1. ASSUME TimersInv, [Next]_vars, NEW t \in refused
      PROVE  UnderWay(t)' \subseteq UnderWay(t)
  <2>1. RunsMove
    BY <1>1, StepMoves
  <2>2. ASSUME NEW q \in UnderWay(t)' PROVE q \in UnderWay(t)
    <3>1. q \in Runs /\ of[q] = t /\ Comes(q)
      BY <2>1, <2>2 DEF UnderWay, RunsMove, Comes
    <3>2. CASE OnThread(q)
      BY <3>1, <3>2 DEF UnderWay
    <3>3. CASE stage[q] = "queued" /\ go[q]
      BY <1>1, <3>1, <3>3 DEF TimersInv, RefusedInv, Carries
    <3>4. QED
      BY <3>1, <3>2, <3>3 DEF Comes
  <2>3. QED
    BY <2>2
<1>2. TimersInv /\ [Next]_vars => [\A t \in refused : UnderWay(t)' \subseteq UnderWay(t)]_vars
  BY <1>1
<1>3. QED
  BY <1>2, TimersInvHolds, PTL DEF Spec, RefusalObeyed

-----------------------------------------------------------------------------
(* The requester.                                                          *)

(* A round of requests is under way only where the callback of an          *)
(* asynchronous handler is still owed.                                     *)
AskInv == /\ ask \in [Runs -> Asks]
          /\ \A r \in Runs : ask[r] # "none" => r \in owed /\ IsRequester(r)

LEMMA RoundIsStep ==
  ASSUME AskInv, [ReqNext]_reqVars
  PROVE  [Next]_vars
<1>1. CASE ManagerStep
  BY <1>1 DEF Next
<1>2. ASSUME NEW r \in Runs, FirstRequest(r) \/ OtherStep(r) \/ OtherAnswer(r)
      PROVE  [Next]_vars
  BY <1>2 DEF FirstRequest, OtherStep, OtherAnswer, RunStep, Next
<1>3. ASSUME NEW r \in Runs, Round(r) PROVE [Next]_vars
  <2>1. CASE SenderRefuses(r) \/ NoResponse(r) \/ LastRequest(r)
    <3>1. r \in owed
      BY <2>1 DEF SenderRefuses, NoResponse, LastRequest, AskInv
    <3>2. Answer(r)
      BY <2>1, <3>1 DEF SenderRefuses, NoResponse, LastRequest, Answer
    <3>3. QED
      BY <3>2 DEF Next
  <2>2. CASE Response(r) \/ NoQueue(r) \/ NextRequest(r)
    BY <2>2 DEF Response, NoQueue, NextRequest
  <2>3. CASE Abandoned(r) \/ Discarded(r)
    BY <2>3 DEF Abandoned, Discarded, Next
  <2>4. QED
    BY <1>3, <2>1, <2>2, <2>3 DEF Round
<1>4. CASE UNCHANGED reqVars
  BY <1>4 DEF reqVars
<1>5. QED
  BY <1>1, <1>2, <1>3, <1>4 DEF ReqNext

LEMMA AskKept ==
  ASSUME TimersInv, AskInv, [ReqNext]_reqVars
  PROVE  AskInv'
<1>1. RunsMove
  BY RoundIsStep, StepMoves
<1>2. \A q \in owed : IsRequester(q)' <=> IsRequester(q)
  BY <1>1 DEF RunsMove, Stays, IsRequester, TimersInv, TypeOK
<1>3. ASSUME ask' = ask, owed \subseteq owed' PROVE AskInv'
  BY <1>2, <1>3 DEF AskInv
<1>4. ASSUME NEW r \in Runs, NEW a \in Asks, AskIs(r, a), owed \ {r} \subseteq owed',
             a = "none" \/ (r \in owed' /\ IsRequester(r)')
      PROVE  AskInv'
  <2>1. ask' \in [Runs -> Asks] /\ \A q \in Runs : ask'[q] = IF q = r THEN a ELSE ask[q]
    BY <1>4 DEF AskInv, AskIs
  <2>2. QED
    BY <1>2, <1>4, <2>1 DEF AskInv
<1>5. CASE ManagerStep /\ UNCHANGED ask
  <2>1. owed' = owed
    BY <1>5 DEF ManagerStep, Create, Reset, DestroyQueue, ClearQueue, DropPosted,
                Detach, Release, DropHandle, Switch, ManagerKeeps, runVars
  <2>2. QED
    BY <1>3, <1>5, <2>1
<1>6. ASSUME NEW r \in Runs, FirstRequest(r) PROVE AskInv'
  <2>1. CASE IsRequester(r)
    <3>1. r \in owed' /\ owed \subseteq owed' /\ AskIs(r, "sent") /\ kind' = kind /\ of' = of
      BY <1>6, <2>1 DEF FirstRequest, Call, IsRequester, RunKeeps, timerVars
    <3>2. IsRequester(r)'
      BY <2>1, <3>1 DEF IsRequester
    <3>3. QED
      BY <1>4, <3>1, <3>2 DEF Asks
  <2>2. CASE ~IsRequester(r)
    BY <1>3, <1>6, <2>2 DEF FirstRequest, Call
  <2>3. QED
    BY <2>1, <2>2
<1>7. ASSUME NEW r \in Runs, OtherStep(r) PROVE AskInv'
  BY <1>3, <1>7 DEF OtherStep, Begin, PassOver, Return, Leave
<1>8. ASSUME NEW r \in Runs, OtherAnswer(r) PROVE AskInv'
  <2>1. owed' = owed \ {r} /\ ask' = ask /\ ~IsRequester(r)
    BY <1>8 DEF OtherAnswer, Answer, Tell, Forget
  <2>2. QED
    BY <1>2, <2>1 DEF AskInv
<1>9. ASSUME NEW r \in Runs, Round(r) PROVE AskInv'
  <2>1. CASE SenderRefuses(r) \/ NoResponse(r) \/ LastRequest(r) \/ Abandoned(r) \/ Discarded(r)
    <3>1. AskIs(r, "none") /\ owed' = owed \ {r}
      BY <2>1 DEF SenderRefuses, NoResponse, LastRequest, Abandoned, Discarded, Tell, Forget
    <3>2. QED
      BY <1>4, <3>1 DEF Asks
  <2>2. CASE Response(r) \/ NoQueue(r) \/ NextRequest(r)
    <3>1. /\ UNCHANGED vars /\ r \in owed /\ IsRequester(r)
          /\ \E a \in Asks : AskIs(r, a)
      BY <2>2 DEF Response, NoQueue, NextRequest, AskInv, Asks
    <3>2. r \in owed' /\ owed' = owed /\ IsRequester(r)'
      BY <3>1 DEF vars, IsRequester
    <3>3. QED
      BY <1>4, <3>1, <3>2
  <2>3. QED
    BY <1>9, <2>1, <2>2 DEF Round
<1>10. CASE UNCHANGED reqVars
  BY <1>3, <1>10 DEF reqVars, vars
<1>11. QED
  BY <1>5, <1>6, <1>7, <1>8, <1>9, <1>10 DEF ReqNext

(* A requester does with its timer what an asynchronous handler may do.    *)
THEOREM RequesterIsHandler == ReqSpec => IsAsyncHandler
<1>1. ReqInit => Init /\ TimersInv /\ AskInv
  BY InitTimers DEF ReqInit, AskInv, Asks
<1>2. TimersInv /\ AskInv /\ [ReqNext]_reqVars => [Next]_vars /\ TimersInv' /\ AskInv'
  BY RoundIsStep, AskKept, TimersStep
<1>3. QED
  BY <1>1, <1>2, PTL DEF ReqSpec, IsAsyncHandler, Spec

=============================================================================
