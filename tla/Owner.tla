---------------------------------- MODULE Owner ----------------------------------
(***************************************************************************)
(* The owner of wflow/owner: handlers that stop working when their owner   *)
(* says so.  A wrapped handler holds a weak_ptr to an int of the owner, a  *)
(* tracked one to an int in the owner's map, and a call of either locks it *)
(* first.  The ints are numbered here in the order they are made and are   *)
(* called tokens.  A callback_handler shares an atomic flag with its       *)
(* copies, so that the handler in it runs once and its loss is noticed.    *)
(*                                                                         *)
(* The owner's data are under a rwlock, so what an operation does to them  *)
(* is one step with its unlock; its tests of _tracking_flag come earlier.  *)
(***************************************************************************)
EXTENDS RWLock, Functions

CONSTANTS Handlers,    (* places for wrapped or tracked handlers          *)
          Ids,         (* the io_ids that are tracked                     *)
          Copies,      (* places for copies of a callback_handler         *)
          MaxTokens,   (* how many tokens are ever made                   *)
          Uses         (* sets of operations that a program may have      *)

Token == 1..MaxTokens
Reading == {"alive", "wrap", "callback"}
Writing == {"reset", "tracking", "release", "clear", "setNoCall"}

ASSUME TokensAssumption == MaxTokens \in Nat \ {0}
ASSUME CopiesAssumption == IsFiniteSet(Copies)
ASSUME UsesAssumption == Uses \subseteq SUBSET (Reading \cup Writing)

VARIABLES
  use,          (* the operations of this program                         *)
  doing,        (* the operation of the owner each thread is in           *)
  made,         (* how many tokens there have been                        *)
  alive,        (* the token in _alive                                    *)
  trackingFlag, (* _tracking_flag                                         *)
  enabling,     (* what each thread in enable_tracking() is about to write *)
  trackingMap,  (* the token of each io_id in _tracking_map, 0 if none    *)
  copies,       (* the tokens that clients hold from alive()              *)
  weak,         (* the token of each handler, 0 for no handler            *)
  inCall,       (* the token a thread holds while it is in a handler, or 0*)
  cut,          (* history: tokens that the owner has let go              *)
  noCall,       (* is _no_call set                                        *)
  copy,         (* the copies of the callback: gone, live or passing      *)
  callback      (* the flag they share, and what has become of it         *)

dataVars == <<made, alive, trackingMap, weak, copies, cut>>
flagVars == <<trackingFlag, enabling>>
ownerVars == <<use, doing, flagVars, dataVars, inCall, noCall>>
callVars == <<copy, callback>>
vars == <<lockVars, ownerVars, callVars>>

CallbackRecord ==
  [ready : BOOLEAN,          (* the atomic_flag                           *)
   noCall : BOOLEAN,         (* did the owner have a no_call when it was made *)
   calls : 0..2,             (* how often its handler was called          *)
   reports : 0..2,           (* and its no_call                           *)
   overlap : BOOLEAN]        (* did one copy's destructor look at the count
                                while another's was past that look        *)

TypeOK ==
  /\ LockTypeOK
  /\ use \in Uses
  /\ doing \in [Threads -> Reading \cup Writing \cup {"none"}]
  /\ made \in Token /\ alive \in Token
  /\ trackingFlag \in BOOLEAN
  /\ enabling \in [Threads -> {"none", "on", "off"}]
  /\ trackingMap \in [Ids -> 0..MaxTokens]
  /\ copies \subseteq Token /\ cut \subseteq Token
  /\ weak \in [Handlers -> 0..MaxTokens]
  /\ inCall \in [Threads -> 0..MaxTokens]
  /\ noCall \in BOOLEAN
  /\ copy \in [Copies -> {"gone", "live", "passing"}]
  /\ callback \in CallbackRecord

Init ==
  /\ LockInit
  /\ use \in Uses
  /\ doing = [t \in Threads |-> "none"]
  /\ made = 1 /\ alive = 1
  /\ trackingFlag = FALSE
  /\ enabling = [t \in Threads |-> "none"]
  /\ trackingMap = [i \in Ids |-> 0]
  /\ copies = {} /\ cut = {}
  /\ weak = [h \in Handlers |-> 0]
  /\ inCall = [t \in Threads |-> 0]
  /\ noCall = FALSE
  /\ copy = [c \in Copies |-> "gone"]
  /\ callback = [ready |-> TRUE, noCall |-> FALSE, calls |-> 0,
                 reports |-> 0, overlap |-> FALSE]

-----------------------------------------------------------------------------
(* Coming to an operation.                                                 *)

AskFor(t, op) ==
  /\ op \in use /\ UNCHANGED use
  /\ Ask(t, IF op \in Reading THEN "wantR" ELSE "wantW")
  /\ doing' = [doing EXCEPT ![t] = op]

Start(t) ==
  /\ enabling[t] = "none"
  /\ \E op \in use \ {"release", "clear"} : AskFor(t, op)
  /\ UNCHANGED <<flagVars, dataVars, inCall, noCall, callVars>>

(* release_tracking() looks at the flag before it takes the lock and does  *)
(* nothing if tracking is off.                                             *)
StartRelease(t) ==
  /\ enabling[t] = "none"
  /\ trackingFlag
  /\ AskFor(t, "release")
  /\ UNCHANGED <<flagVars, dataVars, inCall, noCall, callVars>>

(* enable_tracking() looks at the flag and changes it without the lock, and *)
(* only then comes to clear the map.                                       *)
TestTracking(t, v) ==
  /\ at[t] = "out" /\ enabling[t] = "none"
  /\ "clear" \in use
  /\ trackingFlag # (v = "on")
  /\ enabling' = [enabling EXCEPT ![t] = v]
  /\ UNCHANGED <<lockVars, use, doing, trackingFlag, dataVars, inCall, noCall, callVars>>

EnableTracking(t) ==
  /\ at[t] = "out" /\ enabling[t] # "none"
  /\ trackingFlag' = (enabling[t] = "on")
  /\ enabling' = [enabling EXCEPT ![t] = "none"]
  /\ IF enabling[t] = "off" THEN AskFor(t, "clear") ELSE UNCHANGED <<lockVars, use, doing>>
  /\ UNCHANGED <<dataVars, inCall, noCall, callVars>>

Wait(t) == Test(t) /\ UNCHANGED <<ownerVars, callVars>>

(* Inside the lock, up to the unlock.                                      *)
InRead(t, op) == at[t] = "reads" /\ doing[t] = op
InWrite(t, op) == at[t] = "writes" /\ doing[t] = op
Out(t) == /\ Unlock(t) \/ UnlockR(t)
          /\ doing' = [doing EXCEPT ![t] = "none"]
          /\ UNCHANGED <<use, flagVars, inCall>>

-----------------------------------------------------------------------------
(* wrap(), alive() and reset().                                            *)

(* A strong pointer to a token: the owner's or its map's, a client's from   *)
(* alive(), or that of a call under way.                                   *)
InHand(k) == k \in copies \/ \E t \in Threads : inCall[t] = k
Held(k) == k = alive \/ k \in Range(trackingMap) \/ InHand(k)

Alive(t) ==
  /\ InRead(t, "alive") /\ Out(t)
  /\ copies' = copies \cup {alive}
  /\ UNCHANGED <<made, alive, trackingMap, weak, cut, noCall, callVars>>

DropAlive(k) ==
  /\ copies' = copies \ {k}
  /\ UNCHANGED <<lockVars, use, doing, flagVars, made, alive, trackingMap, weak,
                 cut, inCall, noCall, callVars>>

Wrap(t) ==
  /\ InRead(t, "wrap") /\ Out(t)
  /\ \E h \in Handlers : weak' = [weak EXCEPT ![h] = alive]
  /\ UNCHANGED <<made, alive, trackingMap, copies, cut, noCall, callVars>>

(* Variant of Reset: the int is incremented where it is.                   *)
ResetInPlace(t) ==
  /\ InWrite(t, "reset") /\ Out(t)
  /\ cut' = cut \cup {alive}
  /\ UNCHANGED <<made, alive, trackingMap, weak, copies, noCall, callVars>>

Reset(t) ==
  /\ InWrite(t, "reset") /\ made < MaxTokens /\ Out(t)
  /\ made' = made + 1
  /\ alive' = made'
  /\ cut' = cut \cup {alive}
  /\ UNCHANGED <<trackingMap, weak, copies, noCall, callVars>>

(* A call of a handler: the token is locked and held until the call ends;  *)
(* without it the other handler is called, which is nothing to the owner.  *)
Begin(t, h) ==
  /\ inCall[t] = 0 /\ at[t] = "out" /\ enabling[t] = "none"
  /\ weak[h] # 0 /\ Held(weak[h])
  /\ inCall' = [inCall EXCEPT ![t] = weak[h]]
  /\ UNCHANGED <<lockVars, use, doing, flagVars, dataVars, noCall, callVars>>

(* A handler may itself use the owner, and returns when that is done.      *)
End(t) ==
  /\ inCall[t] # 0 /\ at[t] = "out" /\ enabling[t] = "none"
  /\ inCall' = [inCall EXCEPT ![t] = 0]
  /\ UNCHANGED <<lockVars, use, doing, flagVars, dataVars, noCall, callVars>>

-----------------------------------------------------------------------------
(* tracking(), release_tracking() and enable_tracking(false).              *)

(* An id that is in the map keeps its token: it is only counted again, and *)
(* nobody reads that count.                                                *)
Track(t, i, h) ==
  /\ InWrite(t, "tracking") /\ Out(t)
  /\ IF trackingMap[i] # 0 THEN UNCHANGED <<made, trackingMap>>
     ELSE /\ made < MaxTokens
          /\ made' = made + 1
          /\ trackingMap' = [trackingMap EXCEPT ![i] = made']
  /\ weak' = [weak EXCEPT ![h] = trackingMap'[i]]
  /\ UNCHANGED <<alive, copies, cut, noCall, callVars>>

Release(t, i) ==
  /\ InWrite(t, "release") /\ Out(t)
  /\ trackingMap' = [trackingMap EXCEPT ![i] = 0]
  /\ cut' = cut \cup ({trackingMap[i]} \ {0})
  /\ UNCHANGED <<made, alive, weak, copies, noCall, callVars>>

Clear(t) ==
  /\ InWrite(t, "clear") /\ Out(t)
  /\ trackingMap' = [i \in Ids |-> 0]
  /\ cut' = cut \cup (Range(trackingMap) \ {0})
  /\ UNCHANGED <<made, alive, weak, copies, noCall, callVars>>

-----------------------------------------------------------------------------
(* Callbacks.  Their copies are called, copied and destroyed anywhere,     *)
(* without the owner's lock.                                               *)

CallbackKeeps == UNCHANGED <<lockVars, ownerVars>>

SetNoCall(t) ==
  /\ InWrite(t, "setNoCall") /\ Out(t)
  /\ noCall' = ~noCall
  /\ UNCHANGED <<dataVars, callVars>>

UseCount == Cardinality({c \in Copies : copy[c] # "gone"})

Callback(t) ==
  /\ InRead(t, "callback") /\ Out(t)
  /\ IF UseCount # 0 THEN UNCHANGED callVars
     ELSE /\ \E c \in Copies : copy' = [copy EXCEPT ![c] = "live"]
          /\ callback' = [ready |-> FALSE, noCall |-> noCall, calls |-> 0,
                          reports |-> 0, overlap |-> FALSE]
  /\ UNCHANGED <<dataVars, noCall>>

CopyCallback(c, d) ==
  /\ copy[c] = "live" /\ copy[d] = "gone"
  /\ copy' = [copy EXCEPT ![d] = "live"]
  /\ UNCHANGED callback /\ CallbackKeeps

(* The call that finds the flag clear is the only one that reaches the     *)
(* handler; later ones reach _double_call.                                 *)
CallCallback(c) ==
  /\ copy[c] = "live"
  /\ callback' = [callback EXCEPT !.ready = TRUE,
                                  !.calls = IF callback.ready THEN @ ELSE @ + 1]
  /\ UNCHANGED copy /\ CallbackKeeps

(* Variant of Destroy: the loss of a callback is reported, called or not.  *)
DestroyLoudly(c) ==
  /\ copy[c] = "live"
  /\ IF UseCount = 1 /\ callback.noCall
     THEN /\ copy' = [copy EXCEPT ![c] = "gone"]
          /\ callback' = [callback EXCEPT !.ready = TRUE, !.reports = @ + 1]
     ELSE /\ copy' = [copy EXCEPT ![c] = "passing"]
          /\ callback' = [callback EXCEPT !.overlap =
                            @ \/ \E d \in Copies : copy[d] = "passing"]
  /\ CallbackKeeps

(* The destructor of a copy looks at the count before its own share of it   *)
(* is given up.  A copy that is alone reports that the handler was never   *)
(* called; one that saw others goes on to give up its share.               *)
Destroy(c) ==
  /\ copy[c] = "live"
  /\ IF UseCount = 1 /\ callback.noCall
     THEN /\ copy' = [copy EXCEPT ![c] = "gone"]
          /\ callback' = [callback EXCEPT !.ready = TRUE,
                            !.reports = IF callback.ready THEN @ ELSE @ + 1]
     ELSE /\ copy' = [copy EXCEPT ![c] = "passing"]
          /\ callback' = [callback EXCEPT !.overlap =
                            @ \/ \E d \in Copies : copy[d] = "passing"]
  /\ CallbackKeeps

GiveUp(c) ==
  /\ copy[c] = "passing"
  /\ copy' = [copy EXCEPT ![c] = "gone"]
  /\ UNCHANGED callback /\ CallbackKeeps

OwnerStep(t) ==
  \/ Start(t) \/ StartRelease(t) \/ EnableTracking(t) \/ Wait(t)
  \/ \E v \in {"on", "off"} : TestTracking(t, v)
  \/ Alive(t) \/ Wrap(t) \/ Reset(t) \/ Clear(t) \/ SetNoCall(t) \/ Callback(t)
  \/ \E i \in Ids : Release(t, i) \/ \E h \in Handlers : Track(t, i, h)

CallStep(t) == End(t) \/ \E h \in Handlers : Begin(t, h)

CopyStep(c) == \/ CallCallback(c) \/ Destroy(c) \/ GiveUp(c)
               \/ \E d \in Copies : CopyCallback(c, d)

Next == \/ \E t \in Threads : OwnerStep(t) \/ CallStep(t)
        \/ \E k \in copies : DropAlive(k)
        \/ \E c \in Copies : CopyStep(c)

Spec == Init /\ [][Next]_vars

-----------------------------------------------------------------------------
(* After reset(), release_tracking() or the end of tracking a handler that *)
(* was wrapped or tracked before it is not called any more, unless someone *)
(* kept its token at that time: once nobody has it, nobody gets it again,  *)
(* whatever calls were between (owner.hpp:49-97, owner_handler.hpp:28-38). *)
CutOff == [][\A k \in cut : ~InHand(k) => ~InHand(k)']_vars

(* A callback ends in one call of its handler or in one report that there  *)
(* was none, never in both.  When a no_call handler is set it ends in one  *)
(* of them, unless the last copies were destroyed at the same time: each   *)
(* then sees the other and nobody reports (callback_handler.hpp:30-55).    *)
CallbackSettled ==
  /\ callback.calls + callback.reports <= 1
  /\ (UseCount = 0 /\ callback.noCall /\ ~callback.overlap)
       => callback.calls + callback.reports = 1

=============================================================================
