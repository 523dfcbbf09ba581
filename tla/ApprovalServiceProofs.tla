----------------------- MODULE ApprovalServiceProofs -----------------------
(***************************************************************************)
(* Proofs about ApprovalService, for any sets of requests, tools and       *)
(* provider ids and any capacity of the notice channel: its invariants,    *)
(* and that it implements ApprovalContract.                                *)
(***************************************************************************)
EXTENDS ApprovalService, TLAPS

Yes == {"Allow", "AllowAll"}
HandleOf(r) == request[r].handle

\* Handles are drawn once: no two calls share one, and none is ahead of minted.
HandlesDistinct ==
  /\ \A r \in Requests : HandleOf(r) <= minted
  /\ \A r, q \in Requests : HandleOf(r) = HandleOf(q) /\ HandleOf(r) # NoHandle => r = q

\* A call has a handle from NameCall on; one that never got one was let
\* through by allowed_tools.
StagesNamed ==
  \A r \in Requests :
    /\ requestAt[r] \in {"new", "admitted"} => HandleOf(r) = NoHandle
    /\ requestAt[r] \in {"named", "registered", "waiting", "dropping", "aborted"}
         => HandleOf(r) # NoHandle
    /\ requestAt[r] = "returned" /\ HandleOf(r) = NoHandle
         => verdict[r] = "AllowAll" /\ request[r].tool \in allowedTools

\* Answers and verdicts come in their stage, and a yes from a ruling.
AnswerBacked(r) ==
  /\ requestAt[r] \in {"new", "admitted", "named"} => answer[r] = "none"
  /\ requestAt[r] # "returned" => verdict[r] = "none"
  /\ answer[r] \in Yes \/ (verdict[r] \in Yes /\ HandleOf(r) # NoHandle) =>
       \E d \in Yes : [handle |-> HandleOf(r), decision |-> d] \in rulings

AnswersBacked == \A r \in Requests : AnswerBacked(r)

IInv ==
  /\ TypeOK
  /\ HandlesDistinct
  /\ StagesNamed
  /\ WaitersMatchEntries
  /\ AnswersBacked

-----------------------------------------------------------------------------
\* The invariant holds when the worker starts.
LEMMA InitInv == Init => IInv
  BY ApproverAssumption
  DEF Init, MapperInit, ApproverInit, IInv, TypeOK, MapperTypeOK, ApproverTypeOK,
      HandlesDistinct, StagesNamed, WaitersMatchEntries, AnswersBacked, AnswerBacked,
      HandleOf, NoHandle, Stages, HasGuard, Listens, Yes, Entries, Decisions

\* approve() up to its lookup in allowed_tools.
LEMMA ApproveInv ==
  ASSUME IInv, NEW r \in Requests, NEW tool \in Tools, NEW p \in ProviderIds,
         Approve(r, tool, p), UNCHANGED delivered
  PROVE  IInv'
<1> USE DEF IInv, Approve, Return, NoHandle, mapperVars
<1>1. TypeOK'
  BY DEF TypeOK, MapperTypeOK, ApproverTypeOK, Stages, Decisions
<1>2. HandlesDistinct'
  BY DEF TypeOK, MapperTypeOK, ApproverTypeOK, HandlesDistinct, HandleOf
<1>3. StagesNamed'
  BY DEF TypeOK, ApproverTypeOK, StagesNamed, HandleOf
<1>4. WaitersMatchEntries'
  <2>1. /\ pending' = pending /\ answer' = answer
        /\ ~ HasGuard(r) /\ ~ HasGuard(r)' /\ ~ Listens(r) /\ ~ Listens(r)'
    BY DEF TypeOK, ApproverTypeOK, HasGuard, Listens
  <2>2. \A q \in Requests \ {r} : /\ HasGuard(q)' = HasGuard(q) /\ Listens(q)' = Listens(q)
                               /\ HandleOf(q)' = HandleOf(q)
    BY DEF TypeOK, ApproverTypeOK, HasGuard, Listens, HandleOf
  <2>3. \A e \in pending : e.req \in Requests \ {r}
    BY <2>1 DEF TypeOK, ApproverTypeOK, Entries, WaitersMatchEntries
  <2> QED BY <2>1, <2>2, <2>3, Zenon DEF WaitersMatchEntries, HandleOf
<1>5. AnswersBacked'
  BY DEF TypeOK, ApproverTypeOK, AnswersBacked, AnswerBacked, StagesNamed, HandleOf, Yes
<1> QED BY <1>1, <1>2, <1>3, <1>4, <1>5

\* start_approval gives the call a handle no other call has.
LEMMA NameCallInv ==
  ASSUME IInv, NEW r \in Requests, NameCall(r), UNCHANGED delivered
  PROVE  IInv'
<1> USE DEF IInv, NameCall, StartApproval, NewHandle, NoHandle
<1>1. TypeOK'
  <2>1. MapperTypeOK'
    <3> DEFINE id == request[r].callId
    <3>1. callIds' = [callIds EXCEPT ![id] = minted + 1] /\ minted' = minted + 1
      OBVIOUS
    <3>2. callIds \in [ProviderIds -> Nat] /\ minted + 1 \in Nat
      BY DEF TypeOK, MapperTypeOK
    <3> HIDE DEF id
    <3> QED BY <3>1, <3>2 DEF MapperTypeOK
  <2>2. request' \in [Requests -> [tool : Tools \cup {"none"},
                                  callId : ProviderIds \cup {"none"}, handle : Nat]]
    BY DEF TypeOK, MapperTypeOK, ApproverTypeOK
  <2>3. requestAt' \in [Requests -> Stages]
    BY DEF TypeOK, ApproverTypeOK, Stages
  <2> QED BY <2>1, <2>2, <2>3 DEF TypeOK, ApproverTypeOK
<1>2. HandlesDistinct'
  BY DEF TypeOK, MapperTypeOK, ApproverTypeOK, HandlesDistinct, HandleOf
<1>3. StagesNamed'
  BY DEF TypeOK, MapperTypeOK, ApproverTypeOK, StagesNamed, HandleOf
<1>4. WaitersMatchEntries'
  BY DEF TypeOK, ApproverTypeOK, WaitersMatchEntries, HasGuard, Listens, Entries
<1>5. AnswersBacked'
  BY DEF TypeOK, ApproverTypeOK, AnswersBacked, AnswerBacked, HandleOf, Yes
<1> QED BY <1>1, <1>2, <1>3, <1>4, <1>5

\* The entry of a call is put under its own handle, which is vacant.
LEMMA RegisterInv ==
  ASSUME IInv, NEW r \in Requests, Register(r), UNCHANGED delivered
  PROVE  IInv'
<1> USE DEF IInv, Register, Return, mapperVars
<1> DEFINE entry == [handle |-> HandleOf(r), req |-> r]
<1>1. CASE \E e \in pending : e.handle = HandleOf(r)
  <2>1. /\ requestAt' = [requestAt EXCEPT ![r] = "returned"]
        /\ verdict' = [verdict EXCEPT ![r] = "Deny"]
        /\ UNCHANGED <<callIds, minted, pending, allowedTools, request, answer,
                       approvals, receiverOpen, rulings, delivered>>
    BY <1>1 DEF HandleOf
  <2>2. TypeOK'
    BY <2>1 DEF TypeOK, MapperTypeOK, ApproverTypeOK, Stages, Decisions
  <2>3. HandlesDistinct' /\ StagesNamed'
    BY <2>1 DEF TypeOK, ApproverTypeOK, HandlesDistinct, StagesNamed, HandleOf
  <2>4. WaitersMatchEntries'
    BY <2>1 DEF TypeOK, ApproverTypeOK, WaitersMatchEntries, HasGuard, Listens, Entries
  <2>5. AnswersBacked'
    BY <2>1 DEF TypeOK, ApproverTypeOK, AnswersBacked, AnswerBacked, HandleOf, Yes
  <2> QED BY <2>2, <2>3, <2>4, <2>5
<1>2. CASE ~ \E e \in pending : e.handle = HandleOf(r)
  <2>1. /\ pending' = pending \cup {entry}
        /\ requestAt' = [requestAt EXCEPT ![r] = "registered"]
        /\ UNCHANGED <<callIds, minted, allowedTools, request, answer, verdict,
                       approvals, receiverOpen, rulings, delivered>>
    BY <1>2 DEF HandleOf
  <2>2. entry \in Entries
    BY DEF TypeOK, ApproverTypeOK, Entries, HandleOf
  <2>3. entry.req = r /\ entry.handle = HandleOf(r)
    OBVIOUS
  <2>4. requestAt[r] = "named" /\ answer[r] = "none"
    BY DEF AnswersBacked, AnswerBacked
  <2> HIDE DEF entry
  <2>5. TypeOK'
    BY <2>1, <2>2 DEF TypeOK, MapperTypeOK, ApproverTypeOK, Stages
  <2>6. HandlesDistinct' /\ StagesNamed'
    BY <2>1, <2>4 DEF TypeOK, ApproverTypeOK, HandlesDistinct, StagesNamed, HandleOf
  <2>7. WaitersMatchEntries'
    BY <1>2, <2>1, <2>3, <2>4
    DEF TypeOK, ApproverTypeOK, WaitersMatchEntries, HasGuard, Listens, Entries, HandleOf
  <2>8. AnswersBacked'
    BY <2>1, <2>4 DEF TypeOK, ApproverTypeOK, AnswersBacked, AnswerBacked, HandleOf, Yes
  <2> QED BY <2>5, <2>6, <2>7, <2>8
<1> QED BY <1>1, <1>2

\* The notice goes out, or the closed channel denies the call.
LEMMA SendNoticeInv ==
  ASSUME IInv, NEW r \in Requests, SendNotice(r), UNCHANGED delivered
  PROVE  IInv'
<1> USE DEF IInv, SendNotice, Return, DropGuard, NoticeRoom, mapperVars
<1>1. CASE receiverOpen
  <2>1. /\ approvals' = Append(approvals, r) /\ Len(approvals) < ApprovalCapacity
        /\ requestAt[r] = "registered"
        /\ requestAt' = [requestAt EXCEPT ![r] = "waiting"]
        /\ UNCHANGED <<callIds, minted, pending, allowedTools, request, answer,
                       verdict, receiverOpen, rulings, delivered>>
    BY <1>1
  <2>2. TypeOK'
    BY <2>1, ApproverAssumption DEF TypeOK, MapperTypeOK, ApproverTypeOK, Stages
  <2>3. HandlesDistinct' /\ StagesNamed'
    BY <2>1 DEF TypeOK, ApproverTypeOK, HandlesDistinct, StagesNamed, HandleOf
  <2>4. WaitersMatchEntries'
    BY <2>1 DEF TypeOK, ApproverTypeOK, WaitersMatchEntries, HasGuard, Listens, Entries
  <2>5. AnswersBacked'
    BY <2>1 DEF TypeOK, ApproverTypeOK, AnswersBacked, AnswerBacked, HandleOf, Yes
  <2> QED BY <2>2, <2>3, <2>4, <2>5
<1>2. CASE ~receiverOpen
  <2>1. /\ requestAt[r] = "registered"
        /\ requestAt' = [requestAt EXCEPT ![r] = "returned"]
        /\ verdict' = [verdict EXCEPT ![r] = "Deny"]
        /\ pending' = {e \in pending : e.req # r}
        /\ UNCHANGED <<callIds, minted, allowedTools, request, answer, approvals,
                       receiverOpen, rulings, delivered>>
    BY <1>2
  <2>2. TypeOK'
    BY <2>1 DEF TypeOK, MapperTypeOK, ApproverTypeOK, Stages, Decisions
  <2>3. HandlesDistinct' /\ StagesNamed'
    BY <2>1 DEF TypeOK, ApproverTypeOK, HandlesDistinct, StagesNamed, HandleOf
  <2>4. WaitersMatchEntries'
    BY <2>1 DEF TypeOK, ApproverTypeOK, WaitersMatchEntries, HasGuard, Listens, Entries
  <2>5. AnswersBacked'
    BY <2>1 DEF TypeOK, ApproverTypeOK, AnswersBacked, AnswerBacked, HandleOf, Yes
  <2> QED BY <2>2, <2>3, <2>4, <2>5
<1> QED BY <1>1, <1>2

\* The call returns what it was answered.
LEMMA AnsweredInv ==
  ASSUME IInv, NEW r \in Requests, Answered(r), UNCHANGED delivered
  PROVE  IInv'
<1> USE DEF IInv, Answered, HasAnswer, OrDeny, Return, DropGuard, mapperVars
<1>1. TypeOK'
  BY DEF TypeOK, MapperTypeOK, ApproverTypeOK, Stages, Entries, Decisions
<1>2. HandlesDistinct'
  BY DEF HandlesDistinct, HandleOf
<1>3. StagesNamed'
  BY DEF TypeOK, ApproverTypeOK, StagesNamed, HandleOf
<1>4. WaitersMatchEntries'
  BY DEF TypeOK, ApproverTypeOK, WaitersMatchEntries, HasGuard, Listens, Entries
<1>5. AnswersBacked'
  BY DEF TypeOK, ApproverTypeOK, AnswersBacked, AnswerBacked, HandleOf, Yes
<1> QED BY <1>1, <1>2, <1>3, <1>4, <1>5

\* A dropped call stops listening at once; its drop guard removes its own entry
\* and no other.
LEMMA AbortInv ==
  ASSUME IInv, NEW r \in Requests, Abort(r) \/ GuardRuns(r), UNCHANGED delivered
  PROVE  IInv'
<1> USE DEF IInv, Abort, GuardRuns, HasGuard, Listens, DropGuard, mapperVars
<1>1. TypeOK'
  BY DEF TypeOK, MapperTypeOK, ApproverTypeOK, Stages, Entries
<1>2. HandlesDistinct'
  BY DEF HandlesDistinct, HandleOf
<1>3. StagesNamed'
  BY DEF TypeOK, ApproverTypeOK, StagesNamed, HandleOf
<1>4. WaitersMatchEntries'
  <2>1. /\ pending' \subseteq pending /\ request' = request /\ answer' = answer
        /\ \A q \in Requests : q # r => requestAt'[q] = requestAt[q]
        /\ requestAt'[r] \in {"dropping", "aborted"}
        /\ \A e \in pending : e.req # r => e \in pending'
        /\ \A e \in pending' : e.req = r => requestAt'[r] = "dropping"
    BY DEF TypeOK, ApproverTypeOK
  <2>2. \A e \in pending : e.req \in Requests
    BY DEF TypeOK, ApproverTypeOK, Entries
  <2> QED BY ONLY <2>1, <2>2, WaitersMatchEntries DEF WaitersMatchEntries, HasGuard, Listens
<1>5. AnswersBacked'
  BY DEF TypeOK, ApproverTypeOK, AnswersBacked, AnswerBacked, HandleOf, Yes
<1> QED BY <1>1, <1>2, <1>3, <1>4, <1>5

\* A step that changes nothing keeps it.
LEMMA StutterInv ==
  ASSUME IInv, UNCHANGED serviceVars
  PROVE  IInv'
<1>1. UNCHANGED <<callIds, minted, pending, allowedTools, requestAt, request, answer,
                  verdict, approvals, receiverOpen, rulings, delivered>>
  BY DEF serviceVars, approverVars, adapterVars, mapperVars
<1>2. TypeOK'
  BY <1>1 DEF IInv, TypeOK, MapperTypeOK, ApproverTypeOK
<1>3. HandlesDistinct' /\ StagesNamed'
  BY <1>1 DEF IInv, HandlesDistinct, StagesNamed, HandleOf
<1>4. WaitersMatchEntries' /\ AnswersBacked'
  BY <1>1 DEF IInv, WaitersMatchEntries, AnswersBacked, AnswerBacked, HandleOf, HasGuard, Listens
<1> QED BY <1>2, <1>3, <1>4 DEF IInv

\* What resolve() does with an entry: its call is told, or listens no more and
\* nothing but the entry changes.
LEMMA DecideCases ==
  ASSUME IInv, NEW h \in delivered, NEW d \in Decisions, Decide(h, d),
         EntryFor(h) # {},
         NEW e, e = CHOOSE f \in EntryFor(h) : TRUE
  PROVE  LET tool == request[e.req].tool
         IN  /\ e \in pending /\ e.req \in Requests /\ h \in Nat
             /\ answer[e.req] = "none" /\ h = HandleOf(e.req)
             /\ pending' = pending \ {e}
             /\ UNCHANGED <<requestAt, request, verdict, approvals, receiverOpen,
                            callIds, minted, delivered>>
             /\ \/ /\ Listens(e.req)
                   /\ answer' = [answer EXCEPT ![e.req] = CoreDecision(d, tool)]
                   /\ rulings' = rulings \cup {[handle |-> h, decision |-> d]}
                   /\ allowedTools' = IF Persists(d, tool) THEN allowedTools \cup {tool}
                                                           ELSE allowedTools
                \/ /\ requestAt[e.req] = "dropping"
                   /\ UNCHANGED <<answer, rulings, allowedTools>>
<1> USE DEF IInv, Decide, Resolve
<1>1. e \in pending /\ e.handle = h /\ e.req \in Requests /\ h \in Nat
  BY DEF EntryFor, TypeOK, ApproverTypeOK, Entries
<1>2. HasGuard(e.req) /\ answer[e.req] = "none" /\ h = HandleOf(e.req)
  BY <1>1 DEF WaitersMatchEntries, HandleOf
<1>3. CASE Listens(e.req)
  BY <1>1, <1>2, <1>3 DEF mapperVars, Keeps
<1>4. CASE ~Listens(e.req)
  <2>1. requestAt[e.req] = "dropping"
    BY <1>2, <1>4 DEF HasGuard, Listens
  <2> QED BY <1>1, <1>2, <1>4, <2>1 DEF mapperVars, Keeps
<1> QED BY <1>3, <1>4

\* A decision nobody hears takes the entry and leaves the rest.
LEMMA UnheardInv ==
  ASSUME IInv, NEW e \in pending, requestAt[e.req] = "dropping",
         pending' = pending \ {e},
         UNCHANGED <<callIds, minted, allowedTools, requestAt, request, answer, verdict,
                     approvals, receiverOpen, rulings, delivered>>
  PROVE  IInv'
<1> USE DEF IInv
<1>1. TypeOK'
  BY DEF TypeOK, MapperTypeOK, ApproverTypeOK
<1>2. HandlesDistinct' /\ StagesNamed' /\ AnswersBacked'
  BY DEF HandlesDistinct, StagesNamed, AnswersBacked, AnswerBacked, HandleOf
<1>3. WaitersMatchEntries'
  <2>1. \A q \in Requests : /\ HasGuard(q)' = HasGuard(q) /\ Listens(q)' = Listens(q)
    BY DEF HasGuard, Listens
  <2>2. \A f \in pending' : /\ HasGuard(f.req)'
                           /\ answer'[f.req] = "none"
                           /\ f.handle = request'[f.req].handle
    BY DEF WaitersMatchEntries, HasGuard
  <2>3. \A f, g \in pending' : f.handle = g.handle => f = g
    BY DEF WaitersMatchEntries
  <2>4. ASSUME NEW q \in Requests, Listens(q)', answer'[q] = "none"
        PROVE  \E f \in pending' : f.req = q
    <3>1. Listens(q) /\ answer[q] = "none"
      BY <2>1, <2>4
    <3>2. PICK f \in pending : f.req = q
      BY <3>1 DEF WaitersMatchEntries
    <3> QED BY <3>1, <3>2 DEF Listens
  <2> QED BY <2>2, <2>3, <2>4 DEF WaitersMatchEntries
<1> QED BY <1>1, <1>2, <1>3

\* resolve() answers the call the handle belongs to, once.
LEMMA DecideInv ==
  ASSUME IInv, NEW h \in delivered, NEW d \in Decisions, Decide(h, d)
  PROVE  IInv'
<1> USE DEF IInv
<1>1. CASE EntryFor(h) = {}
  BY <1>1, StutterInv DEF serviceVars, Decide, Resolve
<1>2. CASE EntryFor(h) # {}
  <2>e. PICK e : e = CHOOSE f \in EntryFor(h) : TRUE
    OBVIOUS
  <2> DEFINE tool == request[e.req].tool
  <2>0. CASE requestAt[e.req] = "dropping"
    <3>1. /\ e \in pending /\ pending' = pending \ {e}
          /\ UNCHANGED <<callIds, minted, allowedTools, requestAt, request, answer, verdict,
                         approvals, receiverOpen, rulings, delivered>>
      BY <1>2, <2>e, <2>0, DecideCases DEF Listens
    <3> QED BY <2>0, <3>1, UnheardInv
  <2> SUFFICES ASSUME requestAt[e.req] # "dropping"
               PROVE  IInv'
    BY <2>0
  <2>1. e \in pending /\ e.req \in Requests /\ h \in Nat
    BY <1>2, <2>e, DecideCases
  <2>2. Listens(e.req) /\ answer[e.req] = "none" /\ h = HandleOf(e.req)
    BY <1>2, <2>e, DecideCases
  <2>3. tool \in Tools \cup {"none"}
    BY <2>1 DEF TypeOK, ApproverTypeOK
  <2>4. /\ pending' = pending \ {e}
        /\ answer' = [answer EXCEPT ![e.req] = CoreDecision(d, tool)]
        /\ rulings' = rulings \cup {[handle |-> h, decision |-> d]}
        /\ allowedTools' = IF Persists(d, tool) THEN allowedTools \cup {tool}
                                                ELSE allowedTools
        /\ UNCHANGED <<requestAt, request, verdict, approvals, receiverOpen,
                       callIds, minted, delivered>>
    BY <1>2, <2>e, DecideCases
  <2>5. /\ CoreDecision(d, tool) \in Decisions
        /\ CoreDecision(d, tool) \in Yes => d \in Yes
    BY DEF CoreDecision, Decisions, Yes
  <2> HIDE DEF tool
  <2>6. TypeOK'
    BY <2>1, <2>3, <2>4, <2>5, ApproverAssumption
    DEF TypeOK, MapperTypeOK, ApproverTypeOK, Persists
  <2>7. HandlesDistinct'
    BY <2>4 DEF HandlesDistinct, HandleOf
  <2>8. StagesNamed'
    BY <2>4 DEF StagesNamed, HandleOf
  <2>9. WaitersMatchEntries'
    <3>1. \A f \in pending : f.req = e.req => f = e
      BY <2>1 DEF WaitersMatchEntries
    <3>2. /\ requestAt' = requestAt /\ request' = request
          /\ \A q \in Requests : q # e.req => answer'[q] = answer[q]
      BY <2>4 DEF TypeOK, ApproverTypeOK
    <3>3. answer'[e.req] # "none"
      BY <2>1, <2>4, <2>5 DEF TypeOK, ApproverTypeOK, Decisions
    <3>4. \A f \in pending : f.req \in Requests
      BY DEF TypeOK, ApproverTypeOK, Entries
    <3>5. \A f \in pending' : /\ HasGuard(f.req)'
                             /\ answer'[f.req] = "none"
                             /\ f.handle = request'[f.req].handle
      BY <2>4, <3>1, <3>2, <3>4 DEF WaitersMatchEntries, HasGuard, Listens
    <3>6. \A f, g \in pending' : f.handle = g.handle => f = g
      BY <2>4 DEF WaitersMatchEntries
    <3>7. ASSUME NEW q \in Requests, Listens(q)', answer'[q] = "none"
          PROVE  \E f \in pending' : f.req = q
      <4>1. q # e.req /\ Listens(q) /\ answer[q] = "none"
        BY <3>2, <3>3, <3>7 DEF HasGuard, Listens
      <4>2. PICK f \in pending : f.req = q
        BY <4>1 DEF WaitersMatchEntries
      <4> QED BY <2>4, <4>1, <4>2
    <3> QED BY <3>5, <3>6, <3>7 DEF WaitersMatchEntries
  <2>10. AnswersBacked'
    <3> SUFFICES ASSUME NEW q \in Requests
                 PROVE  AnswerBacked(q)'
      BY DEF AnswersBacked
    <3>1. requestAt' = requestAt /\ verdict' = verdict /\ request' = request
      BY <2>4
    <3>2. rulings \subseteq rulings' /\ [handle |-> h, decision |-> d] \in rulings'
      BY <2>4
    <3>3. CASE q = e.req
      <4>1. requestAt[q] \in {"registered", "waiting"} /\ HandleOf(q) = h
        BY <2>2, <3>3 DEF Listens
      <4>2. answer'[q] = CoreDecision(d, tool)
        BY <2>1, <2>4, <3>3 DEF TypeOK, ApproverTypeOK
      <4> QED BY <2>5, <3>1, <3>2, <4>1, <4>2 DEF AnswersBacked, AnswerBacked, HandleOf, Yes
    <3>4. CASE q # e.req
      <4>1. answer'[q] = answer[q]
        BY <2>1, <2>4, <3>4 DEF TypeOK, ApproverTypeOK
      <4> QED BY <3>1, <3>2, <4>1 DEF AnswersBacked, AnswerBacked, HandleOf
    <3> QED BY <3>3, <3>4
  <2> QED BY <2>6, <2>7, <2>8, <2>9, <2>10
<1> QED BY <1>1, <1>2

\* The sweep closes the channel of every waiter it removes.
LEMMA CancelAllInv ==
  ASSUME IInv, CancelAll
  PROVE  IInv'
<1> USE DEF IInv, CancelAll, CancelPending, ClearCallIds, NoHandle
<1>1. TypeOK'
  BY ApproverAssumption DEF TypeOK, MapperTypeOK, ApproverTypeOK
<1>2. HandlesDistinct'
  BY DEF HandlesDistinct, HandleOf
<1>3. StagesNamed'
  BY DEF StagesNamed, HandleOf
<1>4. WaitersMatchEntries'
  <2>1. pending' = {} /\ \A q \in Requests : Listens(q)' = Listens(q)
    BY DEF HasGuard, Listens
  <2>2. ASSUME NEW q \in Requests, Listens(q)', answer'[q] = "none"
        PROVE  FALSE
    <3>1. Listens(q) /\ answer[q] = "none" /\ ~ \E e \in pending : e.req = q
      BY <2>1, <2>2
    <3> QED BY <3>1 DEF WaitersMatchEntries
  <2> QED BY <2>1, <2>2 DEF WaitersMatchEntries
<1>5. AnswersBacked'
  <2>1. /\ requestAt' = requestAt /\ verdict' = verdict /\ request' = request
        /\ rulings' = rulings
    OBVIOUS
  <2>2. \A q \in Requests : answer'[q] = answer[q] \/ (Listens(q) /\ answer'[q] = "closed")
    BY DEF WaitersMatchEntries
  <2> QED BY <2>1, <2>2 DEF AnswersBacked, AnswerBacked, HasGuard, Listens, HandleOf, Yes
<1> QED BY <1>1, <1>2, <1>3, <1>4, <1>5

\* The coordinator takes a notice, or drops the channel.
LEMMA ChannelInv ==
  ASSUME IInv, TakeNotice \/ DropReceiver
  PROVE  IInv'
<1> USE DEF IInv
<1>1. UNCHANGED <<callIds, minted, pending, allowedTools, requestAt, request,
                  answer, verdict, rulings>>
  BY DEF TakeNotice, DropReceiver, adapterVars, mapperVars
<1>2. /\ approvals' \in Seq(Requests) /\ Len(approvals') <= ApprovalCapacity
      /\ delivered' \subseteq Nat /\ receiverOpen' \in BOOLEAN
  <2>1. CASE TakeNotice
    <3>1. /\ approvals \in Seq(Requests) /\ approvals # <<>>
          /\ Len(approvals) <= ApprovalCapacity /\ ApprovalCapacity \in Nat
      BY <2>1, ApproverAssumption DEF TakeNotice, TypeOK, ApproverTypeOK
    <3>2. /\ Head(approvals) \in Requests /\ Tail(approvals) \in Seq(Requests)
          /\ Len(Tail(approvals)) <= ApprovalCapacity
      BY <3>1
    <3>3. request[Head(approvals)].handle \in Nat
      BY <3>2 DEF TypeOK, ApproverTypeOK
    <3>4. approvals' = Tail(approvals) /\ receiverOpen' = receiverOpen
          /\ delivered' = delivered \cup {request[Head(approvals)].handle}
      BY <2>1 DEF TakeNotice
    <3>5. delivered \subseteq Nat /\ receiverOpen \in BOOLEAN
      BY DEF TypeOK, ApproverTypeOK
    <3> QED BY <3>2, <3>3, <3>4, <3>5
  <2>2. CASE DropReceiver
    <3>1. approvals' = <<>> /\ receiverOpen' = FALSE /\ delivered' = delivered
      BY <2>2 DEF DropReceiver
    <3>2. delivered \subseteq Nat /\ 0 <= ApprovalCapacity
      BY ApproverAssumption DEF TypeOK
    <3>3. <<>> \in Seq(Requests) /\ Len(<<>>) = 0
      OBVIOUS
    <3>4. Len(approvals') <= ApprovalCapacity
      BY <3>1, <3>2, <3>3
    <3> QED BY <3>1, <3>2, <3>3, <3>4
  <2> QED BY <2>1, <2>2
<1>3. TypeOK'
  BY <1>1, <1>2 DEF TypeOK, MapperTypeOK, ApproverTypeOK
<1>4. HandlesDistinct' /\ StagesNamed'
  BY <1>1 DEF HandlesDistinct, StagesNamed, HandleOf
<1>5. WaitersMatchEntries' /\ AnswersBacked'
  BY <1>1 DEF WaitersMatchEntries, AnswersBacked, AnswerBacked, HandleOf, HasGuard, Listens
<1> QED BY <1>3, <1>4, <1>5

\* Every step of a call, of the coordinator or of neither keeps it.
LEMMA NextInv == IInv /\ [Next]_serviceVars => IInv'
<1> SUFFICES ASSUME IInv, [Next]_serviceVars PROVE IInv'
  OBVIOUS
<1>1. ASSUME NEW r \in Requests, RequestStep(r) PROVE IInv'
  BY <1>1, ApproveInv, NameCallInv, RegisterInv, SendNoticeInv, AnsweredInv, AbortInv
  DEF RequestStep
<1>2. ASSUME NEW h \in delivered, NEW d \in Decisions, Decide(h, d) PROVE IInv'
  BY <1>2, DecideInv
<1>3. CASE CancelAll
  BY <1>3, CancelAllInv
<1>4. CASE TakeNotice \/ DropReceiver
  BY <1>4, ChannelInv
<1>5. CASE UNCHANGED serviceVars
  BY <1>5, StutterInv
<1> QED BY <1>1, <1>2, <1>3, <1>4, <1>5 DEF Next

\* In every reachable state of the adapter: its types, one handle per call, and
\* every waiter, answer and verdict in the stage it belongs to.
THEOREM InvariantHolds == Spec => []IInv
  BY InitInv, NextInv, PTL DEF Spec

\* Every channel, table and call of the adapter stays within its type, the
\* notice channel within its capacity.
THEOREM TypeCorrect == Spec => []TypeOK
  BY InvariantHolds, PTL DEF IInv

\* pending and the suspended approve() calls match, so cancel_pending() and
\* resolve() reach every waiter there is.
THEOREM WaitersCorrect == Spec => []WaitersMatchEntries
  BY InvariantHolds, PTL DEF IInv

\* approve() never says yes but on a ruling for its own handle or a kept
\* allow_all for its tool.
THEOREM OwnRuling == Spec => []OwnRulingOnly
<1>1. IInv => OwnRulingOnly
  <2> SUFFICES ASSUME IInv, NEW r \in Requests, verdict[r] \in {"Allow", "AllowAll"}
               PROVE  \/ \E d \in {"Allow", "AllowAll"} :
                            [handle |-> request[r].handle, decision |-> d] \in rulings
                      \/ request[r].handle = NoHandle /\ request[r].tool \in allowedTools
    BY DEF OwnRulingOnly
  <2>1. requestAt[r] = "returned"
    BY DEF IInv, AnswersBacked, AnswerBacked
  <2>2. CASE request[r].handle = NoHandle
    BY <2>1, <2>2 DEF IInv, StagesNamed, HandleOf
  <2>3. CASE request[r].handle # NoHandle
    BY <2>3 DEF IInv, AnswersBacked, AnswerBacked, HandleOf, Yes
  <2> QED BY <2>2, <2>3
<1> QED BY <1>1, InvariantHolds, PTL

-----------------------------------------------------------------------------
\* One step removes the entry of a call only by answering or ending that call.
LEMMA EntryLeavesStep ==
  ASSUME IInv, Next, NEW e \in pending, e \notin pending'
  PROVE  answer'[e.req] # "none" \/ requestAt'[e.req] \in {"dropping", "returned", "aborted"}
<1>1. e.req \in Requests /\ HasGuard(e.req)
  BY DEF IInv, TypeOK, ApproverTypeOK, Entries, WaitersMatchEntries
<1>2. /\ answer \in [Requests -> Decisions \cup {"none", "closed"}]
      /\ requestAt \in [Requests -> Stages]
  BY DEF IInv, TypeOK, ApproverTypeOK
<1>3. ASSUME NEW r \in Requests, RequestStep(r)
      PROVE  requestAt'[e.req] \in {"returned", "aborted"}
  <2>1. pending' = {f \in pending : f.req # r}
    BY <1>3 DEF RequestStep, Approve, NameCall, Register, SendNotice, Answered, Abort,
       GuardRuns, DropGuard
  <2>2. e.req = r
    BY <2>1
  <2>3. requestAt' = [requestAt EXCEPT ![r] = "returned"]
        \/ requestAt' = [requestAt EXCEPT ![r] = "aborted"]
    BY <1>1, <1>3, <2>2
    DEF RequestStep, Approve, NameCall, Register, SendNotice, Answered, Abort, GuardRuns,
        Return, HasGuard
  <2> QED BY <1>2, <2>2, <2>3
<1>4. ASSUME NEW h \in delivered, NEW d \in Decisions, Decide(h, d)
      PROVE  answer'[e.req] # "none" \/ requestAt'[e.req] = "dropping"
  <2>f. PICK f : f = CHOOSE g \in EntryFor(h) : TRUE
    OBVIOUS
  <2>1. EntryFor(h) # {}
    BY <1>4 DEF Decide, Resolve, approverVars, adapterVars
  <2>4. /\ pending' = pending \ {f}
        /\ \/ answer' = [answer EXCEPT ![f.req] = CoreDecision(d, request[f.req].tool)]
           \/ requestAt[f.req] = "dropping" /\ requestAt' = requestAt
    BY <1>4, <2>1, <2>f, DecideCases
  <2>5. CoreDecision(d, request[f.req].tool) # "none"
    BY DEF CoreDecision, Decisions
  <2> QED BY <1>1, <1>2, <2>4, <2>5
<1>5. CASE CancelAll
  BY <1>1, <1>5 DEF CancelAll, CancelPending, HasGuard, Listens
<1>6. CASE TakeNotice \/ DropReceiver
  BY <1>6 DEF TakeNotice, DropReceiver, adapterVars
<1> QED BY <1>3, <1>4, <1>5, <1>6 DEF Next

\* The drop guard, resolve() and cancel_pending() take out an entry only with
\* the end or the answer of its own call.
THEOREM EntryLeaves == Spec => EntryLeavesForItsOwnCall
<1>1. IInv /\ [Next]_serviceVars =>
        [\A e \in pending :
           e \notin pending' => \/ answer'[e.req] # "none"
                                \/ requestAt'[e.req] \in
                                     {"dropping", "returned", "aborted"}]_serviceVars
  BY EntryLeavesStep
<1> QED BY <1>1, InvariantHolds, PTL DEF Spec, EntryLeavesForItsOwnCall

-----------------------------------------------------------------------------
(* ApprovalService implements ApprovalContract: every step of the adapter  *)
(* is a step of the contract, or leaves what it speaks of unchanged.       *)

\* A decision can only be about a notice that was taken, so a call whose notice
\* has not been sent yet has no yes: the failure of its send denies nothing
\* that was allowed.
RulingAfterNotice ==
  /\ \A h \in delivered : h <= minted
  /\ \A i \in DOMAIN approvals :
       requestAt[approvals[i]] \in {"waiting", "dropping", "returned", "aborted"}
  /\ \A r \in Requests : requestAt[r] \in {"named", "registered"} =>
       HandleOf(r) \notin delivered /\ answer[r] \notin Yes

CInv == IInv /\ RulingAfterNotice

\* The stronger invariant holds when the worker starts.
LEMMA InitCInv == Init => CInv
  BY InitInv DEF CInv, RulingAfterNotice, Init, MapperInit, ApproverInit, Yes

\* A step of one call.
LEMMA RequestStepNotices ==
  ASSUME CInv, NEW r \in Requests, RequestStep(r)
  PROVE  RulingAfterNotice'
<1> USE DEF CInv, RequestStep
<1>1. /\ delivered' = delivered /\ answer' = answer
      /\ requestAt \in [Requests -> Stages] /\ approvals \in Seq(Requests)
      /\ minted \in Nat /\ delivered \subseteq Nat
  BY DEF Approve, NameCall, Register, SendNotice, Answered, Abort, GuardRuns, IInv, TypeOK,
     MapperTypeOK, ApproverTypeOK
<1>2. CASE \E tool \in Tools, p \in ProviderIds : Approve(r, tool, p)
  <2>1. /\ minted' = minted /\ approvals' = approvals
        /\ requestAt[r] = "new"
        /\ \A q \in Requests : q # r => requestAt'[q] = requestAt[q] /\ HandleOf(q)' = HandleOf(q)
        /\ requestAt'[r] \in {"returned", "admitted"}
    BY <1>1, <1>2 DEF Approve, Return, mapperVars, HandleOf, IInv, TypeOK, ApproverTypeOK
  <2> QED BY <1>1, <2>1 DEF RulingAfterNotice
<1>3. CASE NameCall(r)
  <2>1. /\ minted' = minted + 1 /\ approvals' = approvals
        /\ requestAt[r] = "admitted" /\ requestAt'[r] = "named"
        /\ HandleOf(r)' = minted + 1
        /\ \A q \in Requests : q # r => requestAt'[q] = requestAt[q] /\ HandleOf(q)' = HandleOf(q)
    BY <1>1, <1>3 DEF NameCall, StartApproval, NewHandle, HandleOf, IInv, TypeOK, ApproverTypeOK
  <2>2. answer[r] = "none" /\ minted + 1 \notin delivered
    BY <1>1, <2>1 DEF IInv, AnswersBacked, AnswerBacked, RulingAfterNotice
  <2> QED BY <1>1, <2>1, <2>2 DEF RulingAfterNotice, Yes
<1>4. CASE Register(r) \/ SendNotice(r) \/ Answered(r) \/ Abort(r) \/ GuardRuns(r)
  <2>1. /\ minted' = minted /\ request' = request
        /\ requestAt[r] \in {"named", "registered", "waiting", "dropping"}
        /\ requestAt'[r] \in {"registered", "waiting", "dropping", "returned", "aborted"}
        /\ requestAt[r] \in {"waiting", "dropping"}
             => requestAt'[r] \in {"dropping", "returned", "aborted"}
        /\ requestAt'[r] = "registered" => requestAt[r] = "named"
        /\ \A q \in Requests : q # r => requestAt'[q] = requestAt[q]
    BY <1>1, <1>4 DEF Register, SendNotice, Answered, Abort, GuardRuns, Return, mapperVars
  <2>2. \/ approvals' = approvals
        \/ approvals' = Append(approvals, r) /\ requestAt'[r] = "waiting"
    BY <1>1, <1>4 DEF Register, SendNotice, Answered, Abort, GuardRuns
  <2>3. requestAt'[r] = "registered" => HandleOf(r) \notin delivered /\ answer[r] \notin Yes
    BY <2>1 DEF RulingAfterNotice
  <2>4. \A q \in Requests : requestAt'[q] \in {"named", "registered"} =>
          HandleOf(q)' \notin delivered' /\ answer'[q] \notin Yes
    BY <1>1, <2>1, <2>3 DEF RulingAfterNotice, HandleOf
  <2>5. \A i \in DOMAIN approvals' :
          requestAt'[approvals'[i]] \in {"waiting", "dropping", "returned", "aborted"}
    <3>1. \A i \in DOMAIN approvals : approvals[i] \in Requests
      BY <1>1
    <3>2. \A i \in DOMAIN approvals :
            requestAt'[approvals[i]] \in {"waiting", "dropping", "returned", "aborted"}
      BY <2>1, <3>1 DEF RulingAfterNotice
    <3> QED BY <1>1, <2>2, <3>2
  <2> QED BY <1>1, <2>1, <2>4, <2>5 DEF RulingAfterNotice
<1> QED BY <1>2, <1>3, <1>4

\* A step of the coordinator.
LEMMA EnvironmentNotices ==
  ASSUME CInv,
         \/ TakeNotice \/ CancelAll \/ DropReceiver \/ UNCHANGED serviceVars
         \/ \E h \in delivered, d \in Decisions : Decide(h, d)
  PROVE  RulingAfterNotice'
<1> USE DEF CInv
<1>1. /\ approvals \in Seq(Requests) /\ minted \in Nat /\ delivered \subseteq Nat
      /\ answer \in [Requests -> Decisions \cup {"none", "closed"}]
  BY DEF IInv, TypeOK, MapperTypeOK, ApproverTypeOK
<1>2. CASE TakeNotice
  <2> DEFINE q == Head(approvals)
  <2>1. /\ q \in Requests /\ requestAt[q] \in {"waiting", "dropping", "returned", "aborted"}
        /\ \A i \in DOMAIN Tail(approvals) :
             i + 1 \in DOMAIN approvals /\ Tail(approvals)[i] = approvals[i + 1]
    BY <1>1, <1>2 DEF TakeNotice, RulingAfterNotice
  <2>2. /\ delivered' = delivered \cup {HandleOf(q)} /\ approvals' = Tail(approvals)
        /\ UNCHANGED <<minted, requestAt, request, answer>>
    BY <1>2 DEF TakeNotice, adapterVars, mapperVars, HandleOf
  <2>3. HandleOf(q) <= minted
    BY <2>1 DEF IInv, HandlesDistinct
  <2>4. \A r \in Requests : requestAt[r] \in {"named", "registered"} =>
          HandleOf(r) # HandleOf(q)
    BY <2>1 DEF IInv, HandlesDistinct, StagesNamed
  <2> HIDE DEF q
  <2> QED BY <2>1, <2>2, <2>3, <2>4 DEF RulingAfterNotice, HandleOf
<1>3. CASE CancelAll
  <2>1. /\ approvals' = <<>> /\ UNCHANGED <<minted, requestAt, request, delivered>>
        /\ \A r \in Requests : answer'[r] \in {answer[r], "closed"}
    BY <1>3 DEF CancelAll, CancelPending, ClearCallIds
  <2> QED BY <2>1 DEF RulingAfterNotice, HandleOf, Yes
<1>4. CASE DropReceiver
  BY <1>4 DEF DropReceiver, adapterVars, mapperVars, RulingAfterNotice, HandleOf
<1>5. CASE UNCHANGED serviceVars
  BY <1>5 DEF serviceVars, approverVars, adapterVars, mapperVars, RulingAfterNotice, HandleOf
<1>6. ASSUME NEW h \in delivered, NEW d \in Decisions, Decide(h, d)
      PROVE  RulingAfterNotice'
  <2>1. /\ UNCHANGED <<minted, requestAt, request, approvals, delivered>>
        /\ \A r \in Requests : answer'[r] # answer[r] => HandleOf(r) = h
    <3>1. CASE EntryFor(h) = {}
      BY <1>6, <3>1 DEF Decide, Resolve, approverVars, adapterVars, mapperVars
    <3>2. CASE EntryFor(h) # {}
      <4>1. PICK e : e = CHOOSE f \in EntryFor(h) : TRUE
        OBVIOUS
      <4>2. /\ e.req \in Requests /\ h = HandleOf(e.req)
            /\ \/ answer' = [answer EXCEPT ![e.req] = CoreDecision(d, request[e.req].tool)]
               \/ answer' = answer
            /\ UNCHANGED <<minted, requestAt, request, approvals, delivered>>
        BY <1>6, <3>2, <4>1, DecideCases
      <4> QED BY <1>1, <4>2
    <3> QED BY <3>1, <3>2
  <2> QED BY <2>1 DEF RulingAfterNotice, HandleOf
<1> QED BY <1>2, <1>3, <1>4, <1>5, <1>6

\* Every step keeps the stronger invariant.
LEMMA NextCInv == CInv /\ [Next]_serviceVars => CInv'
<1> SUFFICES ASSUME CInv, [Next]_serviceVars PROVE CInv'
  OBVIOUS
<1>1. IInv'
  BY NextInv DEF CInv
<1>2. RulingAfterNotice'
  BY RequestStepNotices, EnvironmentNotices DEF Next
<1> QED BY <1>1, <1>2 DEF CInv

-----------------------------------------------------------------------------
(* Steps                                                                   *)

\* Which stages and words make which status.
LEMMA StatusValues ==
  ASSUME NEW stage, NEW told
  PROVE  /\ told \in {"Allow", "AllowAll"} => Status(stage, told) = "allowed"
         /\ told \in {"Deny", "closed"} => Status(stage, told) = "denied"
         /\ told = "none" /\ stage = "new" => Status(stage, told) = "idle"
         /\ told = "none" /\ stage \in {"dropping", "aborted"} => Status(stage, told) = "withdrawn"
         /\ told = "none" /\ stage \notin {"new", "dropping", "aborted"}
              => Status(stage, told) = "open"
  BY Zenon DEF Status

\* The contract's variables, when one call alone changes.
LEMMA OneCallChanges ==
  ASSUME NEW r \in Requests, NEW s,
         \A q \in Requests : q # r => /\ requestAt'[q] = requestAt[q]
                                      /\ answer'[q] = answer[q]
                                      /\ verdict'[q] = verdict[q],
         StatusOf(r)' = s
  PROVE  [q \in Requests |-> StatusOf(q)]'
           = [[q \in Requests |-> StatusOf(q)] EXCEPT ![r] = s]
<1>1. \A q \in Requests : q # r => StatusOf(q)' = StatusOf(q)
  BY DEF StatusOf, Told
<1> QED BY <1>1

\* The contract's variables, when no call's status changes.
LEMMA NoStatusChanges ==
  ASSUME \A q \in Requests : StatusOf(q)' = StatusOf(q),
         UNCHANGED allowedTools,
         \A q \in Requests : request'[q].tool = request[q].tool
  PROVE  UNCHANGED Contract!contractVars
<1>1. [q \in Requests |-> StatusOf(q)]' = [q \in Requests |-> StatusOf(q)]
  OBVIOUS
<1>2. [q \in Requests |-> request[q].tool]' = [q \in Requests |-> request[q].tool]
  OBVIOUS
<1> QED BY <1>1, <1>2 DEF Contract!contractVars

\* approve() up to its lookup asks, and is let through by a grant.
LEMMA ApproveAsks ==
  ASSUME CInv, NEW r \in Requests, NEW tool \in Tools, NEW p \in ProviderIds,
         Approve(r, tool, p)
  PROVE  Contract!Ask(r, tool)
<1> DEFINE s == IF tool \in allowedTools THEN "allowed" ELSE "open"
<1>1. /\ requestAt[r] = "new" /\ answer[r] = "none" /\ verdict[r] = "none"
      /\ requestAt \in [Requests -> Stages]
      /\ verdict \in [Requests -> Decisions \cup {"none"}]
      /\ request \in [Requests -> [tool : Tools \cup {"none"},
                                   callId : ProviderIds \cup {"none"}, handle : Nat]]
  BY DEF Approve, CInv, IInv, AnswersBacked, AnswerBacked, TypeOK, ApproverTypeOK
<1>2. /\ requestAt'[r] = IF tool \in allowedTools THEN "returned" ELSE "admitted"
      /\ verdict'[r] = IF tool \in allowedTools THEN "AllowAll" ELSE "none"
      /\ \A q \in Requests : q # r => requestAt'[q] = requestAt[q] /\ verdict'[q] = verdict[q]
      /\ answer' = answer /\ allowedTools' = allowedTools
  BY <1>1 DEF Approve, Return
<1>3. Told(r) = "none" /\ StatusOf(r) = "idle"
  BY <1>1, StatusValues DEF Told, StatusOf
<1>4. Told(r)' = IF tool \in allowedTools THEN "AllowAll" ELSE "none"
  BY <1>1, <1>2 DEF Told
<1>5. StatusOf(r)' = s
  BY <1>2, <1>4, StatusValues DEF StatusOf
<1>6. [q \in Requests |-> StatusOf(q)]'
        = [[q \in Requests |-> StatusOf(q)] EXCEPT ![r] = s]
  BY <1>2, <1>5, OneCallChanges
<1>7. [q \in Requests |-> request[q].tool]'
        = [[q \in Requests |-> request[q].tool] EXCEPT ![r] = tool]
  BY <1>1 DEF Approve
<1> QED BY <1>2, <1>3, <1>6, <1>7 DEF Contract!Ask

\* Naming, registering and announcing a call change nothing the contract speaks
\* of, unless the channel is closed; returning repeats what the call was told.
LEMMA RequestImplements ==
  ASSUME CInv, NEW r \in Requests,
         \/ NameCall(r) \/ Register(r) \/ SendNotice(r)
         \/ Answered(r) \/ Abort(r) \/ GuardRuns(r)
  PROVE  \/ Contract!Deny({r})
         \/ Contract!Withdraw(r)
         \/ UNCHANGED Contract!contractVars
<1>1. /\ requestAt \in [Requests -> Stages]
      /\ verdict \in [Requests -> Decisions \cup {"none"}]
      /\ answer \in [Requests -> Decisions \cup {"none", "closed"}]
      /\ request \in [Requests -> [tool : Tools \cup {"none"},
                                   callId : ProviderIds \cup {"none"}, handle : Nat]]
      /\ requestAt[r] # "returned" => verdict[r] = "none"
      /\ requestAt[r] \in {"new", "admitted", "named"} => answer[r] = "none"
      /\ requestAt[r] = "registered" => answer[r] \notin Yes
  BY DEF CInv, IInv, AnswersBacked, AnswerBacked, RulingAfterNotice, TypeOK, ApproverTypeOK
<1>2. /\ requestAt[r] \in {"admitted", "named", "registered", "waiting", "dropping"}
      /\ verdict[r] = "none" /\ Told(r) = answer[r]
      /\ answer' = answer /\ allowedTools' = allowedTools
      /\ \A q \in Requests : request'[q].tool = request[q].tool
      /\ \A q \in Requests : q # r => requestAt'[q] = requestAt[q] /\ verdict'[q] = verdict[q]
  <2>1. requestAt[r] \in {"admitted", "named", "registered", "waiting", "dropping"}
    BY DEF NameCall, Register, SendNotice, Answered, Abort, GuardRuns
  <2>2. answer' = answer /\ allowedTools' = allowedTools
    BY DEF NameCall, Register, SendNotice, Answered, Abort, GuardRuns
  <2>3. \A q \in Requests : request'[q].tool = request[q].tool
    BY <1>1 DEF NameCall, Register, SendNotice, Answered, Abort, GuardRuns
  <2>4. \A q \in Requests : q # r => requestAt'[q] = requestAt[q] /\ verdict'[q] = verdict[q]
    BY <1>1 DEF NameCall, Register, SendNotice, Answered, Abort, GuardRuns, Return
  <2> QED BY <1>1, <2>1, <2>2, <2>3, <2>4 DEF Told
<1>3. [q \in Requests |-> request[q].tool]' = [q \in Requests |-> request[q].tool]
  BY <1>2
<1>4. CASE /\ requestAt[r] # "dropping"
           /\ requestAt'[r] \in {"named", "registered", "waiting"}
           /\ verdict'[r] = verdict[r]
  <2>1. Told(r)' = Told(r)
    BY <1>2, <1>4 DEF Told
  <2>2. StatusOf(r)' = StatusOf(r)
    BY <1>1, <1>2, <1>4, <2>1, StatusValues DEF StatusOf, Decisions
  <2>3. \A q \in Requests : StatusOf(q)' = StatusOf(q)
    BY <1>2, <2>2 DEF StatusOf, Told
  <2> QED BY <1>2, <2>3, NoStatusChanges
<1>5. CASE /\ requestAt[r] # "dropping" /\ answer[r] \notin Yes
           /\ requestAt'[r] = "returned" /\ verdict'[r] = "Deny"
  <2>1. Told(r)' = "Deny"
    BY <1>5 DEF Told
  <2>2. StatusOf(r)' = "denied"
    BY <2>1, StatusValues DEF StatusOf
  <2>3. CASE answer[r] = "none"
    <3>1. StatusOf(r) = "open"
      BY <1>2, <1>5, <2>3, StatusValues DEF StatusOf
    <3>2. [q \in Requests |-> StatusOf(q)]'
            = [q \in Requests |-> IF q \in {r} THEN "denied" ELSE StatusOf(q)]
      <4>1. \A q \in Requests : q # r => StatusOf(q)' = StatusOf(q)
        BY <1>2 DEF StatusOf, Told
      <4> QED BY <2>2, <4>1
    <3> QED BY <1>2, <1>3, <3>1, <3>2 DEF Contract!Deny
  <2>4. CASE answer[r] \in {"Deny", "closed"}
    <3>1. StatusOf(r) = "denied"
      BY <1>2, <2>4, StatusValues DEF StatusOf
    <3>2. \A q \in Requests : StatusOf(q)' = StatusOf(q)
      BY <1>2, <2>2, <3>1 DEF StatusOf, Told
    <3> QED BY <1>2, <3>2, NoStatusChanges
  <2> QED BY <1>1, <1>5, <2>3, <2>4 DEF Decisions, Yes
<1>6. CASE requestAt'[r] = "returned" /\ verdict'[r] \in Yes /\ verdict'[r] = answer[r]
  <2>1. StatusOf(r) = "allowed"
    BY <1>2, <1>6, StatusValues DEF StatusOf, Yes
  <2>2. Told(r)' = answer[r]
    BY <1>6 DEF Told, Yes
  <2>3. StatusOf(r)' = "allowed"
    BY <1>6, <2>2, StatusValues DEF StatusOf, Yes
  <2>4. \A q \in Requests : StatusOf(q)' = StatusOf(q)
    BY <1>2, <2>1, <2>3 DEF StatusOf, Told
  <2> QED BY <1>2, <2>4, NoStatusChanges
<1>7. CASE /\ requestAt[r] # "dropping"
           /\ requestAt'[r] \in {"dropping", "aborted"} /\ verdict'[r] = verdict[r]
  <2>1. Told(r)' = Told(r)
    BY <1>2, <1>7 DEF Told
  <2>2. CASE answer[r] = "none"
    <3>1. StatusOf(r) = "open" /\ StatusOf(r)' = "withdrawn"
      BY <1>2, <1>7, <2>1, <2>2, StatusValues DEF StatusOf
    <3>2. [q \in Requests |-> StatusOf(q)]'
            = [[q \in Requests |-> StatusOf(q)] EXCEPT ![r] = "withdrawn"]
      BY <1>2, <3>1, OneCallChanges
    <3> QED BY <1>2, <1>3, <3>1, <3>2 DEF Contract!Withdraw
  <2>3. CASE answer[r] # "none"
    <3>1. StatusOf(r)' = StatusOf(r)
      BY <1>1, <1>2, <2>1, <2>3, StatusValues DEF StatusOf, Decisions
    <3>2. \A q \in Requests : StatusOf(q)' = StatusOf(q)
      BY <1>2, <3>1 DEF StatusOf, Told
    <3> QED BY <1>2, <3>2, NoStatusChanges
  <2> QED BY <2>2, <2>3
<1>8. CASE /\ requestAt[r] = "dropping" /\ requestAt'[r] = "aborted"
           /\ verdict'[r] = verdict[r]
  <2>1. Told(r)' = Told(r)
    BY <1>2, <1>8 DEF Told
  <2>2. StatusOf(r)' = StatusOf(r)
    BY <1>1, <1>2, <1>8, <2>1, StatusValues DEF StatusOf, Decisions
  <2>3. \A q \in Requests : StatusOf(q)' = StatusOf(q)
    BY <1>2, <2>2 DEF StatusOf, Told
  <2> QED BY <1>2, <2>3, NoStatusChanges
<1>9. \/ /\ requestAt[r] # "dropping"
         /\ requestAt'[r] \in {"named", "registered", "waiting"} /\ verdict'[r] = verdict[r]
      \/ /\ requestAt[r] # "dropping" /\ answer[r] \notin Yes
         /\ requestAt'[r] = "returned" /\ verdict'[r] = "Deny"
      \/ requestAt'[r] = "returned" /\ verdict'[r] \in Yes /\ verdict'[r] = answer[r]
      \/ /\ requestAt[r] # "dropping"
         /\ requestAt'[r] \in {"dropping", "aborted"} /\ verdict'[r] = verdict[r]
      \/ /\ requestAt[r] = "dropping" /\ requestAt'[r] = "aborted"
         /\ verdict'[r] = verdict[r]
  <2>1. CASE NameCall(r) \/ Abort(r) \/ GuardRuns(r)
    BY <1>1, <2>1 DEF NameCall, Abort, GuardRuns
  <2>2. CASE Register(r)
    BY <1>1, <2>2 DEF Register, Return, Yes
  <2>3. CASE SendNotice(r)
    BY <1>1, <2>3 DEF SendNotice, Return, Yes
  <2>4. CASE Answered(r)
    BY <1>1, <2>4 DEF Answered, HasAnswer, OrDeny, Return, Decisions, Yes
  <2> QED BY <2>1, <2>2, <2>3, <2>4
<1> QED BY <1>4, <1>5, <1>6, <1>7, <1>8, <1>9

\* resolve() rules on the call the handle belongs to, or on none.
LEMMA DecideImplements ==
  ASSUME CInv, NEW h \in delivered, NEW d \in Decisions, Decide(h, d)
  PROVE  \/ \E r \in Requests : \/ Contract!Allow(r)
                                \/ Contract!AllowAll(r)
                                \/ Contract!Deny({r})
         \/ UNCHANGED Contract!contractVars
<1>1. CASE EntryFor(h) = {}
  <2>1. UNCHANGED <<requestAt, answer, verdict, allowedTools, request>>
    BY <1>1 DEF Decide, Resolve, approverVars, adapterVars
  <2>2. \A q \in Requests : StatusOf(q)' = StatusOf(q)
    BY <2>1 DEF StatusOf, Told
  <2> QED BY <2>1, <2>2, NoStatusChanges
<1>2. CASE EntryFor(h) # {}
  <2>e. PICK e : e = CHOOSE f \in EntryFor(h) : TRUE
    OBVIOUS
  <2>r. PICK r : r = e.req
    OBVIOUS
  <2> DEFINE tool == request[r].tool
  <2>0. CASE requestAt[r] = "dropping"
    <3>1. UNCHANGED <<requestAt, answer, verdict, allowedTools, request>>
      BY <1>2, <2>e, <2>r, <2>0, DecideCases DEF CInv, Listens
    <3>2. \A q \in Requests : StatusOf(q)' = StatusOf(q)
      BY <3>1 DEF StatusOf, Told
    <3> QED BY <3>1, <3>2, NoStatusChanges
  <2> SUFFICES ASSUME requestAt[r] # "dropping"
               PROVE  \/ \E q \in Requests : \/ Contract!Allow(q)
                                             \/ Contract!AllowAll(q)
                                             \/ Contract!Deny({q})
                      \/ UNCHANGED Contract!contractVars
    BY <2>0
  <2>1. e \in pending /\ r \in Requests
    BY <1>2, <2>e, <2>r, DecideCases DEF CInv
  <2>2. Listens(r) /\ answer[r] = "none"
    BY <1>2, <2>e, <2>r, DecideCases DEF CInv
  <2>3. verdict[r] = "none"
    BY <2>1, <2>2 DEF CInv, IInv, AnswersBacked, AnswerBacked, HasGuard, Listens
  <2>4. /\ answer' = [answer EXCEPT ![r] = CoreDecision(d, tool)]
        /\ allowedTools' = IF Persists(d, tool) THEN allowedTools \cup {tool}
                                                ELSE allowedTools
        /\ UNCHANGED <<requestAt, request, verdict>>
    BY <1>2, <2>e, <2>r, DecideCases DEF CInv
  <2>5. answer \in [Requests -> Decisions \cup {"none", "closed"}]
    BY DEF CInv, IInv, TypeOK, ApproverTypeOK
  <2>6. StatusOf(r) = "open"
    <3>1. Told(r) = "none" /\ requestAt[r] \notin {"new", "dropping", "aborted"}
      BY <2>2, <2>3 DEF Told, Listens
    <3>2. Status(requestAt[r], Told(r)) = "open"
      BY <3>1, StatusValues
    <3> QED BY <3>2 DEF StatusOf
  <2>7. Told(r)' = CoreDecision(d, tool)
    BY <2>1, <2>3, <2>4, <2>5 DEF Told
  <2>8. \A q \in Requests : q # r => /\ requestAt'[q] = requestAt[q]
                                     /\ answer'[q] = answer[q]
                                     /\ verdict'[q] = verdict[q]
    BY <2>4, <2>5
  <2>9. [q \in Requests |-> request[q].tool]' = [q \in Requests |-> request[q].tool]
    BY <2>4
  <2>10. CASE d = "Allow"
    <3>1. CoreDecision(d, tool) = "Allow" /\ allowedTools' = allowedTools
      BY <2>4, <2>10 DEF CoreDecision, Persists
    <3>2. StatusOf(r)' = "allowed"
      BY <2>7, <3>1, StatusValues DEF StatusOf
    <3>3. [q \in Requests |-> StatusOf(q)]'
            = [[q \in Requests |-> StatusOf(q)] EXCEPT ![r] = "allowed"]
      BY <2>1, <2>8, <3>2, OneCallChanges
    <3> QED BY <2>1, <2>6, <2>9, <3>1, <3>3 DEF Contract!Allow
  <2>11. CASE d = "AllowAll"
    <3>1. CoreDecision(d, tool) \in {"Allow", "AllowAll"}
      BY <2>11 DEF CoreDecision
    <3>2. allowedTools' = allowedTools \cup ({tool} \cap RegisteredTools)
      BY <2>4, <2>11 DEF Persists
    <3>3. StatusOf(r)' = "allowed"
      BY <2>7, <3>1, StatusValues DEF StatusOf
    <3>4. [q \in Requests |-> StatusOf(q)]'
            = [[q \in Requests |-> StatusOf(q)] EXCEPT ![r] = "allowed"]
      BY <2>1, <2>8, <3>3, OneCallChanges
    <3>5. [q \in Requests |-> request[q].tool][r] = tool
      BY <2>1
    <3> HIDE DEF tool
    <3> QED BY <2>1, <2>6, <2>9, <3>2, <3>4, <3>5 DEF Contract!AllowAll
  <2>12. CASE d = "Deny"
    <3>1. CoreDecision(d, tool) = "Deny" /\ allowedTools' = allowedTools
      BY <2>4, <2>12 DEF CoreDecision, Persists
    <3>2. StatusOf(r)' = "denied"
      BY <2>7, <3>1, StatusValues DEF StatusOf
    <3>3. [q \in Requests |-> StatusOf(q)]'
            = [q \in Requests |-> IF q \in {r} THEN "denied" ELSE StatusOf(q)]
      BY <2>8, <3>2 DEF StatusOf, Told
    <3> QED BY <2>1, <2>6, <2>9, <3>1, <3>3 DEF Contract!Deny
  <2> QED BY <2>1, <2>10, <2>11, <2>12 DEF Decisions
<1> QED BY <1>1, <1>2

\* cancel_pending() denies the calls that wait, all at once.
LEMMA CancelImplements ==
  ASSUME CInv, CancelAll
  PROVE  Contract!Deny({r \in Requests : Listens(r) /\ \E e \in pending : e.req = r})
<1> DEFINE S == {r \in Requests : Listens(r) /\ \E e \in pending : e.req = r}
<1>1. \A r \in S : Listens(r) /\ answer[r] = "none" /\ verdict[r] = "none"
  BY DEF CInv, IInv, WaitersMatchEntries, AnswersBacked, AnswerBacked, HasGuard, Listens
<1>2. /\ \A r \in Requests : answer'[r] = IF r \in S THEN "closed" ELSE answer[r]
      /\ UNCHANGED <<requestAt, request, verdict, allowedTools>>
  BY DEF CancelAll, CancelPending
<1> HIDE DEF S
<1>3. \A r \in S : r \in Requests => StatusOf(r) = "open" /\ StatusOf(r)' = "denied"
  BY <1>1, <1>2, StatusValues DEF StatusOf, Told, HasGuard, Listens
<1>4. \A r \in Requests : r \notin S => StatusOf(r)' = StatusOf(r)
  BY <1>2 DEF StatusOf, Told
<1>5. S \subseteq Requests
  BY DEF S
<1>6. [r \in Requests |-> StatusOf(r)]'
        = [r \in Requests |-> IF r \in S THEN "denied" ELSE StatusOf(r)]
  BY <1>3, <1>4
<1>7. \A r \in S : [q \in Requests |-> StatusOf(q)][r] = "open"
  BY <1>3, <1>5
<1>8. [r \in Requests |-> request[r].tool]' = [r \in Requests |-> request[r].tool]
  BY <1>2
<1>9. Contract!Deny(S)
  BY <1>2, <1>6, <1>7, <1>8 DEF Contract!Deny
<1> QED BY <1>9 DEF S

\* What the coordinator does to the channel is not the contract's business.
LEMMA ChannelImplements ==
  ASSUME TakeNotice \/ DropReceiver \/ UNCHANGED serviceVars
  PROVE  UNCHANGED Contract!contractVars
<1>1. UNCHANGED <<requestAt, answer, verdict, allowedTools, request>>
  BY DEF TakeNotice, DropReceiver, serviceVars, approverVars, adapterVars
<1>2. \A q \in Requests : StatusOf(q)' = StatusOf(q)
  BY <1>1 DEF StatusOf, Told
<1> QED BY <1>1, <1>2, NoStatusChanges

\* Every step of the adapter is a step of the contract or none.
LEMMA StepImplements == CInv /\ [Next]_serviceVars => [Contract!Next]_(Contract!contractVars)
<1> SUFFICES ASSUME CInv, [Next]_serviceVars
             PROVE  Contract!Next \/ UNCHANGED Contract!contractVars
  OBVIOUS
<1>1. ASSUME NEW r \in Requests, RequestStep(r)
      PROVE  Contract!Next \/ UNCHANGED Contract!contractVars
  <2>1. CASE \E tool \in Tools, p \in ProviderIds : Approve(r, tool, p)
    BY <2>1, ApproveAsks DEF Contract!Next
  <2>2. CASE \/ NameCall(r) \/ Register(r) \/ SendNotice(r)
             \/ Answered(r) \/ Abort(r) \/ GuardRuns(r)
    BY <2>2, RequestImplements DEF Contract!Next
  <2> QED BY <1>1, <2>1, <2>2 DEF RequestStep
<1>2. ASSUME NEW h \in delivered, NEW d \in Decisions, Decide(h, d)
      PROVE  Contract!Next \/ UNCHANGED Contract!contractVars
  BY <1>2, DecideImplements DEF Contract!Next
<1>3. CASE CancelAll
  <2> DEFINE S == {r \in Requests : Listens(r) /\ \E e \in pending : e.req = r}
  <2>1. Contract!Deny(S) /\ S \in SUBSET Requests
    BY <1>3, CancelImplements
  <2> HIDE DEF S
  <2> QED BY <2>1 DEF Contract!Next
<1>4. CASE TakeNotice \/ DropReceiver \/ UNCHANGED serviceVars
  BY <1>4, ChannelImplements
<1> QED BY <1>1, <1>2, <1>3, <1>4 DEF Next

\* Initially no call has been made.
LEMMA InitImplements == Init => Contract!Init
<1> SUFFICES ASSUME Init PROVE Contract!Init
  OBVIOUS
<1>1. \A r \in Requests : Told(r) = "none" /\ requestAt[r] = "new" /\ request[r].tool = "none"
  BY DEF Init, ApproverInit, Told
<1>2. \A r \in Requests : StatusOf(r) = "idle"
  BY <1>1, StatusValues DEF StatusOf
<1>3. allowedTools = {}
  BY DEF Init, ApproverInit
<1> QED BY <1>1, <1>2, <1>3 DEF Contract!Init

\* The approval adapter implements its contract: seen through the status of its
\* calls and the tools it keeps an allow_all for, no interleaving of calls,
\* drops, rulings, cancels and a closed channel does what the contract forbids.
THEOREM AdapterImplements == Spec => ImplementsContract
<1>1. Init => CInv
  BY InitCInv
<1>2. CInv /\ [Next]_serviceVars => CInv'
  BY NextCInv
<1>3. CInv /\ [Next]_serviceVars => [Contract!Next]_(Contract!contractVars)
  BY StepImplements
<1>4. Init => Contract!Init
  BY InitImplements
<1> QED BY <1>1, <1>2, <1>3, <1>4, PTL DEF Spec, ImplementsContract, Contract!Spec
=============================================================================
