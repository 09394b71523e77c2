--------------------------- MODULE Service_proofs ---------------------------
(***************************************************************************)
(* Admission, recovery and the end of the command, for any number of       *)
(* clients, slots, snapshots, kills and restarts.                          *)
(*                                                                         *)
(* The handlers' invariant is stated about Server alone.  Every step of    *)
(* the command leaves them alone, ends contexts, or ends all requests at   *)
(* once; so it holds of Service too.                                       *)
(***************************************************************************)
EXTENDS Service, FiniteSetTheorems, TLAPS

Outside == {"idle", "arrived", "admission"}
Places  == Outside \cup Working \cup {"leaving"}
Compacts == {"reading", "checking", "saving", "named", "scoring"}
Statuses == {Aborted, 200, 400, 401, 404, 405, 408, 413, 415, 429, 500, 504}

Connections ==
    [at : Places, kind : {"health", "other", "compact", "load", Nil},
     snap : Snapshots \cup {Nil}, ok : BOOLEAN, valid : BOOLEAN, known : BOOLEAN,
     holds : BOOLEAN, reply : Statuses \cup {Nil}]

\* Who holds a slot, by place, and what the answer says.
PlaceInv ==
    /\ conn \in [Clients -> Connections]
    /\ \A r \in Clients :
          /\ conn[r].at \in Working => conn[r].holds
          /\ conn[r].at \in Outside => ~conn[r].holds
          /\ conn[r].at # "leaving" => conn[r].reply = Nil
          /\ conn[r].at \in Compacts => conn[r].kind = "compact"
          /\ conn[r].at # "idle" /\ conn[r].kind = "compact" => conn[r].snap \in Snapshots

\* The slots count the requests that hold one.
SlotsInv == slots = Cardinality(Inside) /\ slots <= MaxConcurrent

\* What a result or a request relies on is in the archive for good.
PromiseInv ==
    /\ told \subseteq acked /\ acked \subseteq present
    /\ \A r \in Clients :
          /\ conn[r].known =>
                conn[r].kind = "load" /\ conn[r].valid /\ conn[r].snap \in told
          /\ conn[r].at = "scoring" => conn[r].snap \in acked
          /\ conn[r].reply = 200 /\ conn[r].kind = "compact" => conn[r].snap \in acked
          /\ conn[r].known => conn[r].reply # 404

ServerInv == PlaceInv /\ SlotsInv /\ PromiseInv

-----------------------------------------------------------------------------
\* Nobody is inside at first, and after the process has ended.
Empty == /\ conn = [r \in Clients |-> NoRequest] /\ slots = 0
         /\ told \subseteq acked /\ acked \subseteq present

LEMMA EmptyHouse == Empty => ServerInv
<1> SUFFICES ASSUME Empty
             PROVE  ServerInv
  OBVIOUS
<1> USE DEF Empty
<1>1. PlaceInv
  BY DEF PlaceInv, Connections, NoRequest, Places, Outside, Working, Compacts
<1>2. Inside = {}
  BY DEF Inside, NoRequest
<1>3. SlotsInv
  BY <1>2, FS_EmptySet, ServerAssumption DEF SlotsInv
<1>4. PromiseInv
  BY ServerAssumption DEF PromiseInv, NoRequest
<1> QED
  BY <1>1, <1>3, <1>4 DEF ServerInv

\* As long as the same requests hold slots, their number stays.
LEMMA SameInside ==
    ASSUME SlotsInv, slots' = slots, \A r \in Clients : conn'[r].holds = conn[r].holds
    PROVE  SlotsInv'
<1>1. Inside' = Inside
  BY DEF Inside
<1> QED
  BY <1>1 DEF SlotsInv

\* A request that is answered where it stands.
LEMMA ReplyKeeps ==
    ASSUME ServerInv, NEW r \in Clients, NEW from \in Places \ {"leaving", "idle"},
           NEW status \in Statuses, Replies(r, from, status), Rest,
           status = 404 => ~conn[r].known,
           status = 200 /\ conn[r].kind = "compact" => conn[r].snap \in acked
    PROVE  ServerInv'
<1> DEFINE left == [conn[r] EXCEPT !.at = "leaving", !.reply = status]
<1>0. left \in Connections /\ conn' = [conn EXCEPT ![r] = left] /\ conn[r].at # "idle"
  BY DEF ServerInv, PlaceInv, Replies, Connections, Places
<1>1. PlaceInv'
  BY <1>0 DEF ServerInv, PlaceInv, Connections, Working, Outside, Compacts
<1>2. SlotsInv'
  BY SameInside DEF ServerInv, PlaceInv, Replies, Rest, Connections
<1>3. PromiseInv'
  BY DEF ServerInv, PlaceInv, PromiseInv, Replies, Rest, archive, Connections
<1> QED
  BY <1>1, <1>2, <1>3 DEF ServerInv

\* A request that moves on, outside or inside.
LEMMA GoKeeps ==
    ASSUME ServerInv, NEW r \in Clients, NEW from \in Places \ {"leaving", "idle"},
           NEW to \in Working \cup {"admission"}, Goes(r, from, to),
           from \in Working <=> to \in Working,
           to \in Compacts => conn[r].kind = "compact",
           slots' = slots, told' = told,
           acked \subseteq acked', acked' \subseteq present',
           to = "scoring" => conn[r].snap \in acked'
    PROVE  ServerInv'
<1>1. PlaceInv'
  BY DEF ServerInv, PlaceInv, Goes, Connections, Places, Working, Outside, Compacts
<1>2. SlotsInv'
  BY SameInside DEF ServerInv, PlaceInv, Goes, Connections
<1>3. PromiseInv'
  BY DEF ServerInv, PlaceInv, PromiseInv, Goes, Connections
<1> QED
  BY <1>1, <1>2, <1>3 DEF ServerInv

\* What a new request looks like.
LEMMA RequestFacts ==
    ASSUME NEW q \in Arriving
    PROVE  /\ q \in Connections /\ q.at = "arrived" /\ ~q.holds /\ q.reply = Nil
           /\ q.known => q.kind = "load" /\ q.valid /\ q.snap \in told
           /\ q.kind = "compact" => q.snap \in Snapshots
<1>1. CASE q \in {[NoRequest EXCEPT !.at = "arrived", !.kind = k] : k \in {"health", "other"}}
  BY <1>1 DEF NoRequest, Connections, Places, Outside
<1>2. CASE q = [NoRequest EXCEPT !.at = "arrived", !.kind = "other", !.ok = TRUE]
  BY <1>2 DEF NoRequest, Connections, Places, Outside
<1>3. CASE \E s \in Snapshots :
         q = [NoRequest EXCEPT !.at = "arrived", !.kind = "compact", !.snap = s, !.ok = TRUE]
  BY <1>3 DEF NoRequest, Connections, Places, Outside
<1>4. ASSUME NEW s \in Snapshots, NEW v \in BOOLEAN, q = LoadOf(s, v)
      PROVE  /\ q \in Connections /\ q.at = "arrived" /\ ~q.holds /\ q.reply = Nil
             /\ q.known => q.kind = "load" /\ q.valid /\ q.snap \in told
             /\ q.kind = "compact" => q.snap \in Snapshots
  <2>1. PICK k \in BOOLEAN : k = (v /\ s \in told)
    <3>1. CASE v /\ s \in told
      <4>1. TRUE = (v /\ s \in told)
        BY <3>1
      <4> QED
        BY <4>1
    <3>2. CASE ~(v /\ s \in told)
      <4>1. FALSE = (v /\ s \in told)
        BY <3>2
      <4> QED
        BY <4>1
    <3> QED
      BY <3>1, <3>2
  <2>2. q = [NoRequest EXCEPT !.at = "arrived", !.kind = "load", !.snap = s, !.ok = TRUE,
                              !.valid = v, !.known = k]
    <3>1. q = [NoRequest EXCEPT !.at = "arrived", !.kind = "load", !.snap = s, !.ok = TRUE,
                                !.valid = v, !.known = v /\ s \in told]
      BY <1>4, Zenon DEF LoadOf
    <3> QED
      BY <2>1, <3>1, Zenon
  <2>3. q \in Connections /\ q.at = "arrived" /\ ~q.holds /\ q.reply = Nil
    BY <2>2 DEF NoRequest, Connections, Places, Outside
  <2>4. q.kind = "load" /\ q.valid = v /\ q.snap = s /\ q.known = k
    BY <2>2 DEF NoRequest
  <2> QED
    BY <2>1, <2>3, <2>4
<1>5. CASE q \in Loads
  <2>1. \E s \in Snapshots, v \in BOOLEAN : q = LoadOf(s, v)
    BY <1>5 DEF Loads
  <2> QED
    BY <1>4, <2>1, Zenon
<1> QED
  BY <1>1, <1>2, <1>3, <1>5 DEF Arriving

\* A new request, which knows only what clients were told.
LEMMA ArriveKeeps ==
    ASSUME ServerInv, NEW r \in Clients, Arrive(r)
    PROVE  ServerInv'
<1>1. PICK q \in Arriving : conn' = [conn EXCEPT ![r] = q]
  BY DEF Arrive
<1>2. /\ q \in Connections /\ q.at = "arrived" /\ ~q.holds /\ q.reply = Nil
      /\ q.known => q.kind = "load" /\ q.valid /\ q.snap \in told
      /\ q.kind = "compact" => q.snap \in Snapshots
  BY RequestFacts
<1>3. conn[r].at = "idle" /\ ~conn[r].holds
  BY DEF Arrive, ServerInv, PlaceInv, Outside
<1>4. PlaceInv'
  BY <1>1, <1>2 DEF ServerInv, PlaceInv, Outside, Working, Compacts
<1>5. SlotsInv'
  BY <1>1, <1>2, <1>3, SameInside DEF ServerInv, PlaceInv, Arrive, Connections
<1>6. PromiseInv'
  BY <1>1, <1>2, ServerAssumption
     DEF ServerInv, PlaceInv, PromiseInv, Arrive, archive
<1> QED
  BY <1>4, <1>5, <1>6 DEF ServerInv

\* Admission: one more inside, and one more slot.
LEMMA EnterKeeps ==
    ASSUME ServerInv, NEW r \in Clients, Enter(r)
    PROVE  ServerInv'
<1>1. /\ conn[r].at = "admission" /\ ~conn[r].holds
      /\ slots < MaxConcurrent /\ slots' = slots + 1
      /\ conn' = [conn EXCEPT ![r].at = "routed", ![r].holds = TRUE]
  BY DEF Enter, ServerInv, PlaceInv, Outside
<1>2. PlaceInv'
  BY <1>1 DEF ServerInv, PlaceInv, Connections, Places, Working, Outside, Compacts
<1>3. Inside' = Inside \cup {r} /\ r \notin Inside
  BY <1>1 DEF Inside, ServerInv, PlaceInv, Connections
<1>4. IsFiniteSet(Inside)
  BY FS_Subset, ServerAssumption DEF Inside
<1>5. Cardinality(Inside') = slots + 1 /\ slots \in Nat
  BY <1>3, <1>4, FS_AddElement, FS_CardinalityType DEF ServerInv, SlotsInv
<1>6. SlotsInv'
  BY <1>1, <1>5, ServerAssumption DEF SlotsInv
<1>7. PromiseInv'
  BY <1>1 DEF Enter, ServerInv, PlaceInv, PromiseInv, archive, Connections
<1> QED
  BY <1>2, <1>6, <1>7 DEF ServerInv

\* The deferred release gives back the slot of a request that holds one.
LEMMA LeaveKeeps ==
    ASSUME ServerInv, NEW r \in Clients, Leave(r)
    PROVE  ServerInv'
<1>1. conn' = [conn EXCEPT ![r] = NoRequest]
  BY DEF Leave
<1>2. PlaceInv'
  BY <1>1 DEF ServerInv, PlaceInv, NoRequest, Connections, Places, Working, Outside, Compacts
<1>3. Inside' = Inside \ {r}
  BY <1>1 DEF Inside, NoRequest, ServerInv, PlaceInv
<1>4. IsFiniteSet(Inside)
  BY FS_Subset, ServerAssumption DEF Inside
<1>5. slots \in Nat /\ slots = Cardinality(Inside) /\ slots <= MaxConcurrent
  BY <1>4, FS_CardinalityType DEF ServerInv, SlotsInv
<1>6. slots' = Cardinality(Inside')
  BY <1>3, <1>4, <1>5, FS_RemoveElement DEF Leave, Inside
<1>7. SlotsInv'
  BY <1>5, <1>6, ServerAssumption DEF SlotsInv, Leave
<1>8. told' \subseteq acked' /\ told \subseteq told' /\ acked' = acked /\ present' = present
  BY DEF Leave, Only, ServerInv, PromiseInv, archive
<1>9. PromiseInv'
  BY <1>1, <1>8, ServerAssumption DEF ServerInv, PlaceInv, PromiseInv, NoRequest
<1> QED
  BY <1>2, <1>7, <1>9 DEF ServerInv

-----------------------------------------------------------------------------
\* Steps that leave the requests and the slots alone.
LEMMA StandingStill ==
    ASSUME ServerInv, UNCHANGED <<conn, slots, told, present, acked>>
    PROVE  ServerInv'
BY DEF ServerInv, PlaceInv, SlotsInv, PromiseInv, Inside

LEMMA AdmissionKeeps ==
    ASSUME ServerInv, NEW r \in Clients, Admission(r)
    PROVE  ServerInv'
<1>1. CASE Health(r)
  BY <1>1, ReplyKeeps DEF Health, Only, Places, Outside, Statuses
<1>2. CASE Unauthorized(r)
  BY <1>2, ReplyKeeps DEF Unauthorized, Places, Outside, Statuses
<1>3. CASE Authorized(r)
  BY <1>3, GoKeeps DEF Authorized, Places, Outside, Working, Compacts, Rest, archive, ServerInv, PromiseInv
<1>4. CASE CanceledWaiting(r)
  BY <1>4, ReplyKeeps DEF CanceledWaiting, Places, Outside, Statuses
<1>5. CASE Busy(r)
  BY <1>5, ReplyKeeps DEF Busy, Places, Outside, Statuses
<1> QED
  BY <1>1, <1>2, <1>3, <1>4, <1>5, EnterKeeps DEF Admission

LEMMA CompactingKeeps ==
    ASSUME ServerInv, NEW r \in Clients, Compacting(r)
    PROVE  ServerInv'
<1> USE DEF Places, Outside, Working, Statuses
<1>0. conn[r].at \in Compacts => conn[r].kind = "compact"
  BY DEF ServerInv, PlaceInv
<1>1. ASSUME Rest, NEW from \in Working, NEW status \in Statuses \ {200, 404},
             Replies(r, from, status)
      PROVE  ServerInv'
  BY <1>1, ReplyKeeps
<1>2. ASSUME Rest, NEW from \in Working, NEW to \in Working \ {"scoring"}, Goes(r, from, to),
             to \in Compacts => conn[r].kind = "compact"
      PROVE  ServerInv'
  BY <1>2, GoKeeps DEF Rest, archive, ServerInv, PromiseInv
<1>3. CASE BadMedia(r) \/ BadBody(r) \/ Rejected(r) \/ SaveFails(r) \/ ResultFails(r)
  <2>1. Rest
    BY <1>3 DEF BadMedia, BadBody, Rejected, SaveFails, ResultFails
  <2>2. PICK from \in Working, status \in Statuses \ {200, 404} : Replies(r, from, status)
    BY <1>3 DEF BadMedia, BadBody, Rejected, SaveFails, ResultFails
  <2> QED
    BY <1>1, <2>1, <2>2
<1>4. CASE StartReading(r) \/ BodyRead(r) \/ StartSave(r)
  BY <1>2, <1>4, <1>0 DEF StartReading, BodyRead, StartSave, Only, Compacts, Goes
<1>5. CASE Named(r)
  <2>1. /\ Goes(r, "saving", "named") /\ slots' = slots /\ told' = told
        /\ acked' = acked /\ acked' \subseteq present'
    BY <1>5 DEF Named, Archive!Appear, ServerInv, PromiseInv
  <2> QED
    BY <1>0, <2>1, GoKeeps DEF Goes, Compacts
<1>6. CASE Saved(r)
  <2>1. /\ Goes(r, "named", "scoring") /\ slots' = slots /\ told' = told
        /\ acked \subseteq acked' /\ acked' \subseteq present' /\ conn[r].snap \in acked'
    BY <1>6 DEF Saved, Archive!Acknowledge, ServerInv, PromiseInv
  <2> QED
    BY <1>0, <2>1, GoKeeps DEF Goes, Compacts
<1>7. CASE Result(r)
  <2>1. conn[r].at = "scoring" => conn[r].snap \in acked
    BY DEF ServerInv, PromiseInv
  <2>2. Replies(r, "scoring", 200) /\ Rest /\ conn[r].snap \in acked
    BY <1>7, <2>1 DEF Result, Replies
  <2> QED
    BY <2>2, ReplyKeeps
<1> QED
  BY <1>3, <1>4, <1>5, <1>6, <1>7 DEF Compacting

\* A load is told "not found" only of what no client was told.
LEMMA LoadedKeeps ==
    ASSUME ServerInv, NEW r \in Clients, NoRoute(r) \/ Loaded(r)
    PROVE  ServerInv'
<1> USE DEF Places, Outside, Working, Statuses, Only
<1>1. CASE NoRoute(r)
  BY <1>1, ReplyKeeps DEF NoRoute, ServerInv, PromiseInv
<1>2. CASE Loaded(r)
  <2>1. conn[r].known => conn[r].valid /\ conn[r].snap \in present
    BY DEF ServerInv, PromiseInv
  <2>2. Rest /\ conn[r].kind = "load"
    BY <1>2 DEF Loaded
  <2>3. PICK status \in {200, 404, 500, 504} :
           Replies(r, "routed", status) /\ (status = 404 => ~conn[r].known)
    BY <1>2, <2>1 DEF Loaded
  <2> QED
    BY <2>2, <2>3, ReplyKeeps
<1> QED
  BY <1>1, <1>2

LEMMA RequestKeeps ==
    ASSUME ServerInv, NEW r \in Clients,
           Arrive(r) \/ ContextEnds(r) \/ Handle(r) \/ Panics(r)
    PROVE  ServerInv'
<1>1. CASE ContextEnds(r)
  BY <1>1, StandingStill DEF ContextEnds, archive
<1>2. CASE Panics(r)
  BY <1>2, ReplyKeeps DEF Panics, Working, Places, Outside, Statuses, Aborted
<1> QED
  BY <1>1, <1>2, ArriveKeeps, AdmissionKeeps, CompactingKeeps, LoadedKeeps, LeaveKeeps
     DEF Handle

LEMMA ServerStep == ServerInv /\ [Next]_vars => ServerInv'
BY RequestKeeps, StandingStill DEF Next, vars

LEMMA ServerInit == Init => ServerInv
BY EmptyHouse DEF Init, Archive!Init, Empty

-----------------------------------------------------------------------------
\* The command around the handlers.

\* What a step of the process leaves of the requests: all, their contexts ended, or none.
LEMMA ProcessStep ==
    ASSUME Command \/ Goroutine \/ ServeFails \/ Signal \/ Kill \/ Restart
    PROVE  \/ UNCHANGED <<conn, slots, told, present, acked>>
           \/ /\ HandlersDie
              /\ UNCHANGED archive \/ \E S \in SUBSET Snapshots : Archive!Lose(S)
<1> USE DEF Becomes, handlers, Exit, archive
<1>1. CASE Command
  BY <1>1 DEF Command, BuildFails, Build, SetupFails, Listen, ServeEnded, StartShutdown,
              Drained, Overdue, Joined
<1>2. CASE Goroutine \/ ServeFails \/ Signal \/ Restart
  BY <1>2 DEF Goroutine, ServeStarts, ServeStops, ServeFails, Signal, Restart
<1>3. CASE Kill
  BY <1>3 DEF Kill
<1> QED
  BY <1>1, <1>2, <1>3

LEMMA ServiceStep == ServerInv /\ [NextService]_all => ServerInv'
<1> SUFFICES ASSUME ServerInv, [NextService]_all
             PROVE  ServerInv'
  OBVIOUS
<1>1. CASE \E r \in Clients : Request(r)
  BY <1>1, RequestKeeps DEF Request, Served, Accept
<1>2. CASE UNCHANGED all
  BY <1>2, StandingStill DEF all, handlers
<1>3. CASE Command \/ Goroutine \/ ServeFails \/ Signal \/ Kill \/ Restart
  <2>1. CASE UNCHANGED <<conn, slots, told, present, acked>>
    BY <2>1, StandingStill
  <2>2. CASE HandlersDie /\ (UNCHANGED archive \/ \E S \in SUBSET Snapshots : Archive!Lose(S))
    <3>1. told' \subseteq acked' /\ acked' \subseteq present'
      BY <2>2 DEF HandlersDie, archive, Archive!Lose, ServerInv, PromiseInv
    <3>2. Empty'
      BY <2>2, <3>1 DEF HandlersDie, Empty, NoRequest
    <3> QED
      BY <3>2, EmptyHouse, PTL
  <2> QED
    BY <1>3, <2>1, <2>2, ProcessStep
<1> QED
  BY <1>1, <1>2, <1>3 DEF NextService

LEMMA ServerHolds == Spec => []ServerInv
<1>1. Init => ServerInv
  BY ServerInit
<1>2. ServerInv /\ [Next]_vars => ServerInv'
  BY ServerStep
<1> QED
  BY <1>1, <1>2, PTL DEF Spec

LEMMA ServiceHolds == InitService /\ [][NextService]_all => []ServerInv
<1>1. InitService => ServerInv
  BY ServerInit DEF InitService
<1>2. ServerInv /\ [NextService]_all => ServerInv'
  BY ServiceStep
<1> QED
  BY <1>1, <1>2, PTL

(***************************************************************************)
(* Admission is exact for the handlers alone, and around kills, shutdowns  *)
(* and restarts (server.go:91-104).                                        *)
(***************************************************************************)
THEOREM AdmissionIsExact == (Spec => []SlotsExact) /\ (FairService => []SlotsExact)
<1>1. ServerInv => SlotsExact
  BY DEF ServerInv, PlaceInv, SlotsInv, SlotsExact
<1> QED
  BY <1>1, ServerHolds, ServiceHolds, PTL DEF FairService

(***************************************************************************)
(* What a result promised can be recovered, also after kills, shutdowns    *)
(* and restarts (server.go:139-163).                                       *)
(***************************************************************************)
THEOREM PromisesAreKept == (Spec => []Recoverable) /\ (FairService => []Recoverable)
<1>1. ServerInv => Recoverable
  BY DEF ServerInv, PromiseInv, Recoverable
<1> QED
  BY <1>1, ServerHolds, ServiceHolds, PTL DEF FairService

-----------------------------------------------------------------------------
\* Only Busy answers 429, while all slots are taken and its own request holds none.

Refused(r) == conn'[r].reply = 429 /\ conn[r].reply # 429

LEMMA OnlyBusyRefuses ==
    ASSUME ServerInv, NEW r \in Clients, Refused(r),
           NEW c \in Clients, Arrive(c) \/ ContextEnds(c) \/ Handle(c) \/ Panics(c)
    PROVE  c = r /\ Busy(r)
<1> USE DEF Refused
<1>1. ASSUME NEW from, NEW status, Replies(c, from, status), status # 429
      PROVE  FALSE
  BY <1>1 DEF Replies, ServerInv, PlaceInv, Connections
<1>2. ASSUME NEW from, NEW to, Goes(c, from, to)
      PROVE  FALSE
  BY <1>2 DEF Goes, ServerInv, PlaceInv, Connections
<1>3. CASE Arrive(c)
  <2>1. \A q \in Arriving : q.reply = Nil
    BY RequestFacts
  <2> QED
    BY <1>3, <2>1, ServerAssumption DEF Arrive, ServerInv, PlaceInv
<1>4. CASE Leave(c)
  BY <1>4, ServerAssumption DEF Leave, NoRequest, ServerInv, PlaceInv
<1>5. CASE Enter(c)
  BY <1>5 DEF Enter, ServerInv, PlaceInv, Connections
<1>6. CASE Busy(c)
  BY <1>6 DEF Busy, Replies, ServerInv, PlaceInv, Connections
<1>7. CASE ContextEnds(c)
  BY <1>7 DEF ContextEnds
<1>8. CASE Health(c) \/ Unauthorized(c) \/ Authorized(c) \/ CanceledWaiting(c)
  BY <1>1, <1>2, <1>8 DEF Health, Unauthorized, Authorized, CanceledWaiting
<1>9. CASE Compacting(c)
  BY <1>1, <1>2, <1>9 DEF Compacting, BadMedia, StartReading, BadBody, BodyRead, Rejected,
     StartSave, SaveFails, Named, Saved, Result, ResultFails
<1>10. CASE NoRoute(c) \/ Loaded(c) \/ Panics(c)
  BY <1>1, <1>10 DEF NoRoute, Loaded, Panics, Aborted
<1> QED
  BY <1>3, <1>4, <1>5, <1>6, <1>7, <1>8, <1>9, <1>10 DEF Handle, Admission

\* A refused request holds no slot, so all the slots are taken by others.
LEMMA BusyIsReal ==
    ASSUME ServerInv, NEW r \in Clients, Busy(r)
    PROVE  Cardinality(Inside \ {r}) = MaxConcurrent
<1>1. Inside \ {r} = Inside
  BY DEF Busy, Replies, Inside, ServerInv, PlaceInv, Outside
<1> QED
  BY <1>1 DEF Busy, ServerInv, SlotsInv

LEMMA NoFalseOverload ==
    ASSUME ServerInv, \E c \in Clients : Arrive(c) \/ ContextEnds(c) \/ Handle(c) \/ Panics(c)
    PROVE  \A r \in Clients : Refused(r) => Cardinality(Inside \ {r}) = MaxConcurrent
BY OnlyBusyRefuses, BusyIsReal

\* The end of the process answers nobody.
LEMMA DeathRefusesNobody ==
    ASSUME HandlersDie \/ UNCHANGED conn
    PROVE  \A r \in Clients : ~Refused(r)
BY ServerAssumption DEF HandlersDie, Refused, NoRequest

(***************************************************************************)
(* A request is refused as too many only while others hold all the slots,  *)
(* whatever the process goes through (docs/api.md, "Active request limit   *)
(* reached").                                                              *)
(***************************************************************************)
THEOREM OverloadsAreReal == (Spec => OverloadIsReal) /\ (FairService => OverloadIsReal)
<1> DEFINE Real == \A r \in Clients : conn'[r].reply = 429 /\ conn[r].reply # 429 =>
                      Cardinality(Inside \ {r}) = MaxConcurrent
<1>1. ServerInv /\ [Next]_vars => [Real]_vars
  BY NoFalseOverload DEF Next, Refused
<1>2. ServerInv /\ [NextService]_all => [Real]_vars
  <2> SUFFICES ASSUME ServerInv, NextService
               PROVE  Real
    BY DEF all, handlers, vars
  <2>1. CASE \E r \in Clients : Request(r)
    BY <2>1, NoFalseOverload DEF Request, Served, Accept, Refused
  <2>2. CASE Command \/ Goroutine \/ ServeFails \/ Signal \/ Kill \/ Restart
    BY <2>2, ProcessStep, DeathRefusesNobody DEF Refused
  <2> QED
    BY <2>1, <2>2 DEF NextService
<1> QED
  BY <1>1, <1>2, ServerHolds, ServiceHolds, PTL DEF OverloadIsReal, Spec, FairService

-----------------------------------------------------------------------------
\* The archive behind the handlers keeps the promise of Vault.

(***************************************************************************)
(* The service, with its kills and restarts, uses the archive the way      *)
(* Vault allows: what it acknowledged is never lost.                       *)
(***************************************************************************)
THEOREM KeepsTheVault == FairService => Archive!Spec
<1>1. InitService => Archive!Init
  BY DEF InitService, Init
<1>2. ServerInv /\ [NextService]_all => [Archive!Next]_archive
  <2> SUFFICES ASSUME ServerInv, [NextService]_all, ~UNCHANGED archive
               PROVE  Archive!Next
    OBVIOUS
  <2> USE DEF archive
  <2>1. CASE UNCHANGED all
    BY <2>1 DEF all, handlers
  <2>2. CASE Command \/ Goroutine \/ ServeFails \/ Signal \/ Kill \/ Restart
    BY <2>2, ProcessStep DEF Archive!Next
  <2>3. ASSUME NEW r \in Clients, Request(r)
        PROVE  Archive!Next
    <3>1. Named(r) \/ Saved(r)
      BY <2>3 DEF Request, Served, Accept, Arrive, ContextEnds, Panics, Handle, Admission,
         Health, Unauthorized, Authorized, Enter, CanceledWaiting, Busy, Compacting, BadMedia,
         StartReading, BadBody, BodyRead, Rejected, StartSave, SaveFails, Result, ResultFails,
         NoRoute, Loaded, Leave, Rest
    <3>2. conn[r].at \in {"saving", "named"} => conn[r].snap \in Snapshots
      BY DEF ServerInv, PlaceInv, Compacts
    <3> QED
      BY <3>1, <3>2 DEF Named, Saved, Goes, Archive!Next
  <2> QED
    BY <2>1, <2>2, <2>3 DEF NextService
<1> QED
  BY <1>1, <1>2, ServiceHolds, PTL DEF FairService, Archive!Spec, archive, Archive!vars

-----------------------------------------------------------------------------
\* The end of the command.

Stages == {"build", "listen", "select", "shutdown", "wait", "exited", "killed"}
Processes ==
    [main : Stages, signaled : BOOLEAN, client : {"none", "open", "closed"},
     listener : {"none", "open", "closed"},
     serving : {"none", "starting", "accepting", "returned"}, stopping : BOOLEAN,
     doneCh : {Nil, "closed", "failed"}, overdue : BOOLEAN, exit : {Nil, "ok", "error"},
     failed : BOOLEAN, cut : SUBSET Clients]

\* Only a signal starts the shutdown, and only the shutdown closes the server; what the
\* channel says is what the goroutine did.
OrderInv ==
    /\ proc \in Processes
    /\ proc.main \in {"build", "listen"} => proc.serving = "none"
    /\ proc.main \in {"shutdown", "wait"} => proc.stopping /\ proc.signaled
    /\ proc.stopping => proc.main \in {"shutdown", "wait", "exited"}
    /\ proc.doneCh # Nil => proc.serving = "returned"
    /\ proc.doneCh # Nil /\ proc.doneCh = "closed" => proc.stopping
    /\ proc.failed => proc.doneCh = "failed" /\ proc.serving = "returned"

\* Once a shutdown has seen every request answered, there are no further ones.
DrainInv == proc.main = "wait" /\ ~proc.overdue => Under = {}

ExitInv == OrderInv /\ DrainInv /\ CleanExit

LEMMA ExitKeeps ==
    ASSUME ExitInv, NEW code \in {"ok", "error"}, Exit(code),
           proc.serving \in {"none", "returned"},
           code = "ok" => proc.signaled /\ ~proc.failed /\ Under = {}
    PROVE  ExitInv'
<1>1. /\ proc' = [proc EXCEPT !.main = "exited", !.exit = code, !.cut = Under,
                              !.client = Shut(proc.client), !.listener = Shut(proc.listener)]
      /\ proc \in Processes /\ Under \subseteq Clients
  BY DEF Exit, ExitInv, OrderInv, Under
<1>2. /\ Shut(proc.client) \in {"none", "closed"} /\ Shut(proc.listener) \in {"none", "closed"}
  BY <1>1 DEF Shut, Processes
<1>3. proc' \in Processes /\ proc'.main = "exited"
  BY <1>1, <1>2 DEF Processes, Stages
<1>4. OrderInv'
  BY <1>1, <1>3 DEF ExitInv, OrderInv, Processes
<1>5. CleanExit'
  BY <1>1, <1>2 DEF CleanExit, Processes
<1> QED
  BY <1>3, <1>4, <1>5 DEF ExitInv, DrainInv

\* A request that is not accepted anew leaves no more of them under way.
LEMMA NoneAdded ==
    ASSUME ServerInv, NEW r \in Clients, Handle(r) \/ ContextEnds(r) \/ Panics(r)
    PROVE  Under' \subseteq Under
<1>1. ASSUME NEW from, NEW status, from # "idle", Replies(r, from, status)
      PROVE  Under' \subseteq Under
  BY <1>1 DEF Replies, Under, ServerInv, PlaceInv, Connections
<1>2. ASSUME NEW from, NEW to, from # "idle", Goes(r, from, to)
      PROVE  Under' \subseteq Under
  BY <1>2 DEF Goes, Under, ServerInv, PlaceInv, Connections
<1>3. CASE Leave(r)
  BY <1>3 DEF Leave, NoRequest, Under, ServerInv, PlaceInv
<1>4. CASE Enter(r)
  BY <1>4 DEF Enter, Under, ServerInv, PlaceInv, Connections
<1>5. CASE ContextEnds(r)
  BY <1>5 DEF ContextEnds, Under
<1>6. CASE Health(r) \/ Unauthorized(r) \/ Authorized(r) \/ CanceledWaiting(r) \/ Busy(r)
  BY <1>1, <1>2, <1>6 DEF Health, Unauthorized, Authorized, CanceledWaiting, Busy
<1>7. CASE Compacting(r)
  BY <1>1, <1>2, <1>7 DEF Compacting, BadMedia, StartReading, BadBody, BodyRead, Rejected,
     StartSave, SaveFails, Named, Saved, Result, ResultFails
<1>8. CASE NoRoute(r) \/ Loaded(r) \/ Panics(r)
  BY <1>1, <1>8 DEF NoRoute, Loaded, Panics, Working
<1> QED
  BY <1>3, <1>4, <1>5, <1>6, <1>7, <1>8 DEF Handle, Admission

LEMMA RequestLeavesExit ==
    ASSUME ServerInv, ExitInv, NEW r \in Clients, Request(r)
    PROVE  ExitInv'
<1>1. proc' = proc
  BY DEF Request, Served
<1>2. OrderInv' /\ CleanExit'
  BY <1>1 DEF ExitInv, OrderInv, CleanExit, At
<1>3. CASE Accept(r)
  <2>1. proc.main # "wait"
    BY <1>3 DEF Accept, ExitInv, OrderInv
  <2> QED
    BY <1>1, <1>2, <2>1 DEF ExitInv, DrainInv
<1>4. CASE Handle(r) \/ ContextEnds(r) \/ Panics(r)
  <2>1. Under' \subseteq Under
    BY <1>4, NoneAdded
  <2> QED
    BY <1>1, <1>2, <2>1 DEF ExitInv, DrainInv
<1> QED
  BY <1>2, <1>3, <1>4 DEF Request, Served, ExitInv, DrainInv, At

LEMMA CommandKeepsExit ==
    ASSUME ExitInv, Command
    PROVE  ExitInv'
<1> USE DEF At
<1>1. CASE BuildFails \/ SetupFails
  BY <1>1, ExitKeeps DEF BuildFails, SetupFails, ExitInv, OrderInv
<1>2. CASE ServeEnded
  <2>1. ~proc.stopping /\ proc.doneCh # Nil /\ proc.doneCh # "closed"
    BY <1>2 DEF ServeEnded, ExitInv, OrderInv
  <2>2. Exit("error") /\ proc.serving = "returned"
    BY <1>2, <2>1 DEF ServeEnded, ExitInv, OrderInv
  <2> QED
    BY <2>2, ExitKeeps
<1>3. CASE Joined
  <2>1. proc.serving = "returned" /\ proc.main = "wait" /\ proc.signaled
    BY <1>3 DEF Joined, ExitInv, OrderInv
  <2>2. CASE proc.overdue \/ proc.doneCh = "failed"
    BY <1>3, <2>1, <2>2, ExitKeeps DEF Joined
  <2>3. CASE ~(proc.overdue \/ proc.doneCh = "failed")
    <3>1. Under = {} /\ ~proc.failed /\ Exit("ok")
      BY <1>3, <2>1, <2>3 DEF Joined, ExitInv, OrderInv, DrainInv
    <3> QED
      BY <2>1, <3>1, ExitKeeps
  <2> QED
    BY <2>2, <2>3
<1>4. CASE Build \/ Listen \/ StartShutdown
  <2> USE DEF Becomes, ExitInv, OrderInv, DrainInv, CleanExit, Processes, Stages
  <2>1. CASE Build
    BY <2>1 DEF Build
  <2>2. CASE Listen
    BY <2>2 DEF Listen
  <2>3. CASE StartShutdown
    BY <2>3 DEF StartShutdown
  <2> QED
    BY <1>4, <2>1, <2>2, <2>3
<1>5. CASE Drained
  <2>1. proc' = [proc EXCEPT !.main = "wait"] /\ conn' = conn /\ Under = {} /\ At("shutdown")
    BY <1>5 DEF Drained, Becomes, handlers
  <2>2. Under' = {}
    BY <2>1 DEF Under
  <2> QED
    BY <2>1, <2>2 DEF ExitInv, OrderInv, DrainInv, CleanExit, Processes, Stages
<1>6. CASE Overdue
  BY <1>6 DEF Overdue, ExitInv, OrderInv, DrainInv, CleanExit, Processes, Stages
<1> QED
  BY <1>1, <1>2, <1>3, <1>4, <1>5, <1>6 DEF Command

LEMMA OthersKeepExit ==
    ASSUME ExitInv, Goroutine \/ ServeFails \/ Signal \/ Kill \/ Restart
    PROVE  ExitInv'
<1> USE DEF ExitInv, OrderInv, DrainInv, CleanExit, Processes, Stages, At
<1>1. CASE Goroutine \/ ServeFails \/ Signal
  <2>1. Under' = Under
    BY <1>1 DEF Goroutine, ServeStarts, ServeStops, ServeFails, Signal, Becomes, handlers, Under
  <2>2. CASE Goroutine
    <3>1. CASE ServeStarts
      <4>1. /\ ~proc.stopping /\ proc.serving = "starting" /\ conn' = conn
            /\ proc' = [proc EXCEPT !.serving = "accepting"]
        BY <3>1 DEF ServeStarts, Becomes, handlers
      <4> QED
        BY <2>1, <4>1
    <3>2. CASE ServeStops
      <4>1. /\ proc.stopping /\ proc.serving \in {"starting", "accepting"} /\ conn' = conn
            /\ proc' = [proc EXCEPT !.serving = "returned", !.doneCh = "closed"]
        BY <3>2 DEF ServeStops, Becomes, handlers
      <4> QED
        BY <2>1, <4>1
    <3> QED
      BY <2>2, <3>1, <3>2 DEF Goroutine
  <2>3. CASE ServeFails
    BY <2>1, <2>3 DEF ServeFails, Becomes
  <2>4. CASE Signal
    BY <2>1, <2>4 DEF Signal, Becomes
  <2> QED
    BY <1>1, <2>2, <2>3, <2>4
<1>2. CASE Kill \/ Restart
  <2>1. Fresh \in Processes /\ [Fresh EXCEPT !.main = "killed"] \in Processes
    BY DEF Fresh
  <2>2. proc' = Fresh \/ proc' = [Fresh EXCEPT !.main = "killed"]
    BY <1>2 DEF Kill, Restart
  <2>3. /\ proc'.main \in {"build", "killed"} /\ proc'.serving = "none" /\ ~proc'.stopping
        /\ proc'.doneCh = Nil /\ ~proc'.failed
    BY <2>2 DEF Fresh
  <2> QED
    BY <2>1, <2>2, <2>3
<1> QED
  BY <1>1, <1>2

(***************************************************************************)
(* The end of serve is clean, and exit status zero is the truth            *)
(* (main.go:125-168).                                                      *)
(***************************************************************************)
THEOREM ExitsAreClean == FairService => []CleanExit
<1>1. InitService => ExitInv
  BY DEF InitService, Fresh, ExitInv, OrderInv, DrainInv, CleanExit, Processes, Stages, At
<1>2. ServerInv /\ ExitInv /\ [NextService]_all => ExitInv'
  <2> SUFFICES ASSUME ServerInv, ExitInv, [NextService]_all
               PROVE  ExitInv'
    OBVIOUS
  <2>1. CASE UNCHANGED all
    BY <2>1 DEF all, handlers, ExitInv, OrderInv, DrainInv, CleanExit, At, Under
  <2>2. CASE \E r \in Clients : Request(r)
    BY <2>2, RequestLeavesExit
  <2> QED
    BY <2>1, <2>2, CommandKeepsExit, OthersKeepExit DEF NextService
<1>3. ExitInv => CleanExit
  BY DEF ExitInv
<1> QED
  BY <1>1, <1>2, <1>3, ServiceHolds, PTL DEF FairService

=============================================================================
