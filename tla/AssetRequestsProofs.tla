------------------------ MODULE AssetRequestsProofs ------------------------
(***************************************************************************)
(* Proofs about requests for changes to a table, for any number of         *)
(* requests, sessions, owners and values.                                  *)
(***************************************************************************)
EXTENDS AssetRequests, TLAPS

-----------------------------------------------------------------------------
(* Types.                                                                  *)

LEMMA IdleType == Blank \in Asset /\ Idle \in Session
BY ValuesAssumption DEF Blank, Asset, Idle, Call, Session, Statuses

LEMMA CallType ==
  ASSUME NEW g \in {"idle", "read", "looked", "editing", "deleting"}, NEW t \in Statuses,
         NEW x \in Subjects \cup Owners \cup {Nobody}, NEW a \in Asset
  PROVE  Call(g, t, x, a) \in Session
BY DEF Call, Session

LEMMA NotedType ==
  ASSUME TypeOK, NEW q \in Requests, NEW t \in Statuses
  PROVE  Noted(q, t) \in Request
BY DEF TypeOK, Noted, Request

\* What a flush leaves in a column is what was there or what was proposed.
LEMMA AppliedType ==
  ASSUME TypeOK, NEW q \in Subjects, NEW a \in Asset
  PROVE  Applied(q, a) \in Asset
BY ProposedAssumption DEF TypeOK, Applied, Written, Asset

LEMMA BereftType ==
  ASSUME TypeOK, NEW o \in Owners, NEW a \in Asset
  PROVE  Bereft(o, a) \in Asset
BY DEF TypeOK, Bereft, Written, Asset

\* The subject of a call, and how far the call is.
LEMMA InCallType ==
  ASSUME TypeOK, Begun, NEW s \in Sessions
  PROVE  /\ session[s] \in Session
         /\ session[s].seen \in Asset
         /\ session[s].stage \in {"read", "looked"} => session[s].on \in Requests
         /\ session[s].stage = "read" => session[s].to \in Statuses
         /\ session[s].stage = "looked" => session[s].to = "applied"
BY DEF TypeOK, Session, Begun, InCall

LEMMA TypeInit == Init => TypeOK
<1> SUFFICES ASSUME Init PROVE TypeOK
  OBVIOUS
<1>1. request \in [Requests -> Request]
  BY DEF Init, Request, Statuses
<1>2. session \in [Sessions -> Session] /\ asset \in Asset
  BY IdleType, Zenon DEF Init
<1>3. owners \in SUBSET Owners
  BY DEF Init
<1> QED
  BY <1>1, <1>2, <1>3 DEF TypeOK

LEMMA TypeStep == TypeOK /\ Begun /\ [Next]_vars => TypeOK'
<1> SUFFICES ASSUME TypeOK, Begun, [Next]_vars PROVE TypeOK'
  OBVIOUS
<1>1. ASSUME NEW s \in Sessions, NEW q \in Changes, OpenChange(s, q) PROVE TypeOK'
  <2>1. q \in Requests /\ "draft" \in Statuses
    BY DEF Requests, Statuses
  <2>2. Noted(q, "draft") \in Request
    BY <2>1, NotedType
  <2> QED
    BY <1>1, <2>1, <2>2 DEF OpenChange, TypeOK
<1>2. ASSUME NEW s \in Sessions, NEW q \in Asks, AskRead(s, q) PROVE TypeOK'
  <2>1. Call("read", "pending", q, Blank) \in Session
    BY IdleType, CallType DEF Subjects, Requests, Statuses
  <2> QED
    BY <1>2, <2>1 DEF AskRead, TypeOK
<1>3. ASSUME NEW s \in Sessions, NEW q \in Requests, NEW t \in Statuses, Read(s, q, t) PROVE TypeOK'
  <2>1. (IF t = "applied" THEN asset ELSE Blank) \in Asset
    BY IdleType DEF TypeOK
  <2>2. Call("read", t, q, IF t = "applied" THEN asset ELSE Blank) \in Session
    BY <2>1, CallType DEF Subjects
  <2> QED
    BY <1>3, <2>2 DEF Read, TypeOK
<1>4. ASSUME NEW s \in Sessions, Commit(s) PROVE TypeOK'
  <2>1. Noted(session[s].on, session[s].to) \in Request
    BY <1>4, InCallType, NotedType DEF Commit
  <2> QED
    BY <1>4, <2>1, IdleType DEF Commit, TypeOK
<1>5. ASSUME NEW s \in Sessions, Look(s) PROVE TypeOK'
  <2>1. PICK a \in {session[s].seen} \cup IF session[s].on \in Changes THEN {asset} ELSE {} :
          session' = [session EXCEPT ![s] = [session[s] EXCEPT !.stage = "looked", !.seen = a]]
    BY <1>5 DEF Look, TypeOK
  <2>2. session[s] \in Session /\ a \in Asset
    BY <2>1 DEF TypeOK, Session
  <2>3. [session[s] EXCEPT !.stage = "looked", !.seen = a] \in Session
    BY <2>2 DEF Session
  <2> QED
    BY <1>5, <2>1, <2>3 DEF Look, TypeOK
<1>6. ASSUME NEW s \in Sessions, ApplyFails(s) PROVE TypeOK'
  BY <1>6, InCallType, IdleType DEF ApplyFails, TypeOK, Request
<1>7. ASSUME NEW s \in Sessions, Apply(s) PROVE TypeOK'
  <2>1. session[s].on \in Requests /\ session[s].seen \in Asset /\ "applied" \in Statuses
    BY <1>7, InCallType DEF Apply, Statuses
  <2>2. Noted(session[s].on, "applied") \in Request /\ Applied(session[s].on, session[s].seen) \in Asset
    BY <2>1, NotedType, AppliedType DEF Subjects
  <2> QED
    BY <1>7, <2>1, <2>2, IdleType DEF Apply, TypeOK
<1>8. ASSUME NEW s \in Sessions, Abort(s) PROVE TypeOK'
  BY <1>8, IdleType DEF Abort, TypeOK
<1>9. ASSUME NEW s \in Sessions, NEW e \in Edits, EditRead(s, e) PROVE TypeOK'
  <2>1. Call("editing", "free", e, asset) \in Session
    BY CallType DEF TypeOK, Subjects, Statuses
  <2> QED
    BY <1>9, <2>1 DEF EditRead, TypeOK
<1>10. ASSUME NEW s \in Sessions, EditCommit(s) PROVE TypeOK'
  <2>1. session[s].on \in Subjects /\ session[s].seen \in Asset
    BY <1>10, InCallType DEF EditCommit, Begun, Subjects
  <2> QED
    BY <1>10, <2>1, AppliedType, IdleType DEF EditCommit, TypeOK
<1>11. ASSUME NEW s \in Sessions, NEW o \in Owners, DeleteRead(s, o) PROVE TypeOK'
  <2>1. Call("deleting", "free", o, asset) \in Session
    BY CallType DEF TypeOK, Statuses
  <2> QED
    BY <1>11, <2>1 DEF DeleteRead, TypeOK
<1>12. ASSUME NEW s \in Sessions, DeleteCommit(s) PROVE TypeOK'
  <2>1. session[s].on \in Owners /\ session[s].seen \in Asset
    BY <1>12, InCallType DEF DeleteCommit, Begun
  <2> QED
    BY <1>12, <2>1, BereftType, IdleType DEF DeleteCommit, TypeOK
<1>13. CASE UNCHANGED vars
  BY <1>13 DEF vars, TypeOK
<1> QED
  BY <1>1, <1>2, <1>3, <1>4, <1>5, <1>6, <1>7, <1>8, <1>9, <1>10, <1>11, <1>12, <1>13 DEF Next

-----------------------------------------------------------------------------
(* The life cycle.                                                         *)

\* Events are never deleted.
LEMMA EventsGrow ==
  ASSUME TypeOK, Begun, Next, NEW q \in Requests
  PROVE  request[q].events \subseteq request'[q].events
<1> USE DEF TypeOK
<1>1. ASSUME NEW t \in Sessions, NEW r \in Changes, OpenChange(t, r)
      PROVE  request[q].events \subseteq request'[q].events
  BY <1>1 DEF OpenChange, Noted, Requests
<1>2. ASSUME NEW t \in Sessions, Commit(t) \/ Apply(t)
      PROVE  request[q].events \subseteq request'[q].events
  BY <1>2 DEF Commit, Apply, Noted
<1>3. ASSUME NEW t \in Sessions, ApplyFails(t)
      PROVE  request[q].events \subseteq request'[q].events
  BY <1>3 DEF ApplyFails
<1> QED
  BY <1>1, <1>2, <1>3
  DEF Next, AskRead, Read, Look, Abort, EditRead, EditCommit, DeleteRead, DeleteCommit

\* An event that is added with the status in its turn keeps the order.
LEMMA NotedInOrder ==
  ASSUME TypeOK, Told, NEW r \in Requests, NEW t \in Statuses,
         r \in Changes => t # "pending" /\ Preceded(r, t),
         request' = [request EXCEPT ![r] = Noted(r, t)]
  PROVE  Told'
<1> SUFFICES ASSUME NEW q \in Requests
             PROVE  /\ request'[q].status \in request'[q].events \cup {"free"}
                    /\ q \in Changes => /\ request'[q].status # "pending"
                                        /\ \A u \in request'[q].events : Preceded(q, u)'
  BY DEF Told
<1>1. CASE q = r
  <2>1. request'[q] = Noted(r, t)
    BY <1>1 DEF TypeOK
  <2> QED
    BY <1>1, <2>1 DEF Told, Noted, Preceded
<1>2. CASE q # r
  <2>1. request'[q] = request[q]
    BY <1>2 DEF TypeOK
  <2> QED
    BY <2>1 DEF Told, Preceded
<1> QED
  BY <1>1, <1>2

LEMMA ToldStep == TypeOK /\ Told /\ Begun /\ [Next]_vars => Told'
<1> SUFFICES ASSUME TypeOK, Told, Begun, [Next]_vars PROVE Told'
  OBVIOUS
<1>1. ASSUME NEW s \in Sessions, NEW q \in Changes, OpenChange(s, q) PROVE Told'
  BY <1>1, NotedInOrder DEF OpenChange, Requests, Statuses, Preceded
<1>2. ASSUME NEW s \in Sessions, Commit(s) PROVE Told'
  <2>1. /\ session[s].on \in Requests /\ session[s].to \in Statuses
        /\ session[s].on \in Changes => session[s].to # "pending" /\ Preceded(session[s].on, session[s].to)
    BY <1>2, InCallType, SubjectsAssumption DEF Commit, Begun, InCall
  <2> QED
    BY <1>2, <2>1, NotedInOrder DEF Commit
<1>3. ASSUME NEW s \in Sessions, Apply(s) PROVE Told'
  <2>1. /\ session[s].on \in Requests /\ session[s].to = "applied" /\ "applied" \in Statuses
        /\ session[s].on \in Changes => Preceded(session[s].on, "applied")
    BY <1>3, InCallType DEF Apply, Begun, InCall, Statuses
  <2> QED
    BY <1>3, <2>1, NotedInOrder DEF Apply
<1>4. ASSUME NEW s \in Sessions, ApplyFails(s) PROVE Told'
  <2>1. session[s].on \in Requests
    BY <1>4, InCallType DEF ApplyFails
  <2>2. ASSUME NEW q \in Requests
        PROVE  /\ request'[q].status = request[q].status
               /\ request'[q].events \in {request[q].events, request[q].events \cup {"apply_failed"}}
    BY <1>4, <2>1 DEF ApplyFails, TypeOK, Request
  <2> QED
    BY <2>2 DEF Told, Preceded
<1>5. CASE request' = request
  BY <1>5 DEF Told, Preceded
<1> QED
  BY <1>1, <1>2, <1>3, <1>4, <1>5
  DEF Next, AskRead, Read, Look, Abort, EditRead, EditCommit, DeleteRead, DeleteCommit, vars

\* What a session remembers of its call stays true: events are never deleted.
LEMMA BegunStep == TypeOK /\ Told /\ Begun /\ [Next]_vars => Begun'
<1> SUFFICES ASSUME TypeOK, Told, Begun, [Next]_vars PROVE Begun'
  OBVIOUS
<1> DEFINE Ok(s) ==
      /\ session[s].stage = "deleting" => session[s].on \in Owners
      /\ session[s].stage = "editing" => session[s].on \in Edits
      /\ session[s].stage = "looked" => session[s].to = "applied"
      /\ InCall(s) => /\ session[s].on \in Serves[s] \cap Requests
                      /\ session[s].to = "pending" => session[s].on \in Asks
                      /\ session[s].on \in Changes => Preceded(session[s].on, session[s].to)
<1> SUFFICES ASSUME NEW s \in Sessions PROVE Ok(s)'
  BY DEF Begun
<1> USE DEF TypeOK
<1>0. Ok(s)
  BY DEF Begun
<1>1. CASE UNCHANGED vars
  BY <1>0, <1>1 DEF vars, InCall, Preceded
<1>2. ASSUME Next, session'[s] = session[s] PROVE Ok(s)'
  <2>1. InCall(s) => request[session[s].on].events \subseteq request'[session[s].on].events
    BY <1>0, <1>2, EventsGrow
  <2> QED
    BY <1>0, <1>2, <2>1 DEF InCall, Preceded
<1>3. ASSUME session'[s] = Idle PROVE Ok(s)'
  BY <1>3 DEF Idle, Call, InCall
<1>4. ASSUME NEW q \in Asks, AskRead(s, q) PROVE Ok(s)'
  <2>1. session'[s] = Call("read", "pending", q, Blank) /\ q \in Serves[s] \cap Requests
    BY <1>4 DEF AskRead, Requests
  <2>2. q \notin Changes
    BY SubjectsAssumption
  <2> QED
    BY <2>1, <2>2 DEF Call, InCall
<1>5. ASSUME NEW q \in Requests, NEW t \in Statuses, Read(s, q, t) PROVE Ok(s)'
  <2>1. /\ session'[s] = Call("read", t, q, IF t = "applied" THEN asset ELSE Blank)
        /\ q \in Serves[s] /\ request' = request
    BY <1>5 DEF Read
  <2>2. t # "pending" /\ (q \in Changes => Preceded(q, t))
    BY <1>5 DEF Read, Transitions, Told, Preceded
  <2>3. t # "pending" /\ (q \in Changes => Preceded(q, t)')
    BY <2>1, <2>2 DEF Preceded
  <2> QED
    BY <2>1, <2>3 DEF Call, InCall
<1>6. ASSUME Look(s) PROVE Ok(s)'
  <2>1. /\ session'[s].stage = "looked" /\ session'[s].to = "applied"
        /\ session'[s].on = session[s].on /\ request' = request /\ session[s].stage = "read"
    BY <1>6 DEF Look, Session
  <2>2. /\ session[s].on \in Serves[s] \cap Requests
        /\ session[s].on \in Changes => Preceded(session[s].on, "applied")
    BY <1>0, <1>6, <2>1 DEF InCall, Look
  <2>3. session'[s].on \in Changes => Preceded(session[s].on, "applied")'
    BY <2>1, <2>2 DEF Preceded
  <2> QED
    BY <2>1, <2>2, <2>3 DEF InCall
<1>7. ASSUME NEW e \in Edits, EditRead(s, e) PROVE Ok(s)'
  BY <1>7 DEF EditRead, Call, InCall
<1>8. ASSUME NEW o \in Owners, DeleteRead(s, o) PROVE Ok(s)'
  BY <1>8 DEF DeleteRead, Call, InCall
<1>9. ASSUME Commit(s) \/ ApplyFails(s) \/ Apply(s) \/ Abort(s) \/ EditCommit(s) \/ DeleteCommit(s)
      PROVE  session'[s] = Idle
  BY <1>9 DEF Commit, ApplyFails, Apply, Abort, EditCommit, DeleteCommit
<1>10. ASSUME NEW q \in Changes, OpenChange(s, q) PROVE session'[s] = session[s]
  BY <1>10 DEF OpenChange
<1>11. ASSUME NEW t \in Sessions, t # s,
              \/ \E q \in Changes : OpenChange(t, q)
              \/ \E q \in Asks : AskRead(t, q)
              \/ \E q \in Requests, u \in Statuses : Read(t, q, u)
              \/ Commit(t) \/ Look(t) \/ ApplyFails(t) \/ Apply(t) \/ Abort(t)
              \/ \E e \in Edits : EditRead(t, e)
              \/ EditCommit(t)
              \/ \E o \in Owners : DeleteRead(t, o)
              \/ DeleteCommit(t)
       PROVE  session'[s] = session[s]
  BY <1>11
  DEF OpenChange, AskRead, Read, Commit, Look, ApplyFails, Apply, Abort, EditRead, EditCommit,
      DeleteRead, DeleteCommit
<1> QED
  BY <1>1, <1>2, <1>3, <1>4, <1>5, <1>6, <1>7, <1>8, <1>9, <1>10, <1>11 DEF Next

-----------------------------------------------------------------------------
(* Calls that do not overlap.                                              *)

\* The asks of one type come to one session or to several, all of them.
LEMMA TypesTogether ==
  ASSUME NEW q \in Asks, NEW r \in Asks, SameType(q, r), Alone(q)
  PROVE  Alone(r) /\ SameType(r, q)
<1>1. Together(q) = Together(r)
  BY DEF Together, SameType
<1> QED
  BY <1>1 DEF Alone, SameType

\* While a session is at a call about q, no other changes q or an ask of its type.
LEMMA AloneInCall ==
  ASSUME NEW s \in Sessions, NEW t \in Sessions, s # t, NEW q \in Serves[s] \cap Requests, Alone(q),
         NEW r \in Serves[t] \cap Requests
  PROVE  r # q /\ ~ SameType(q, r)
<1>1. q \in Serves[s] \cap Together(q)
  BY DEF Together
<1>2. r = q \/ SameType(q, r) => r \in Serves[t] \cap Together(q)
  BY DEF Together, SameType
<1>3. Serves[s] \cap Together(q) # {} /\ Serves[t] \cap Together(q) # {} => s = t
  BY DEF Alone
<1> QED
  BY <1>1, <1>2, <1>3

LEMMA CurrentStep == TypeOK /\ Begun /\ Current /\ [Next]_vars => Current'
<1> SUFFICES ASSUME TypeOK, Begun, Current, [Next]_vars PROVE Current'
  OBVIOUS
<1> DEFINE Fits(q, t) ==
      \/ /\ t = "pending" /\ request[q].status = "free"
         /\ \A r \in Asks : SameType(q, r) => request[r].status # "pending"
      \/ t # "pending" /\ <<request[q].status, t>> \in Transitions
<1> SUFFICES ASSUME NEW s \in Sessions, InCall(s)', Alone(session'[s].on)
             PROVE  Fits(session[s].on, session[s].to)'
  BY DEF Current, Alone, Together, SameType
<1> USE DEF TypeOK
<1>1. CASE UNCHANGED vars
  BY <1>1 DEF vars, Current, InCall
<1>2. ASSUME NEW t \in Sessions, t # s, session'[s] = session[s],
             NEW r \in Serves[t] \cap Requests,
             \A q \in Requests \ {r} : request'[q] = request[q]
      PROVE  Fits(session[s].on, session[s].to)'
  <2> DEFINE q == session[s].on
  <2>1. InCall(s) /\ q \in Serves[s] \cap Requests /\ Alone(q)
    BY <1>2 DEF InCall, Begun
  <2>2. Fits(q, session[s].to)
    BY <2>1 DEF Current
  <2>3. r # q /\ ~ SameType(q, r)
    BY <1>2, <2>1, AloneInCall
  <2>4. request'[q] = request[q]
    BY <1>2, <2>1, <2>3
  <2>5. \A x \in Asks : SameType(q, x) => request'[x] = request[x]
    BY <1>2, <2>3 DEF Requests
  <2>6. session'[s].on = q /\ session'[s].to = session[s].to
    BY <1>2
  <2> QED
    BY <2>2, <2>4, <2>5, <2>6
<1>3. ASSUME session'[s] = session[s], request' = request
      PROVE  Fits(session[s].on, session[s].to)'
  BY <1>3 DEF Current, InCall
<1>4. ASSUME NEW q \in Asks, AskRead(s, q) PROVE Fits(session[s].on, session[s].to)'
  <2>1. session'[s].on = q /\ session'[s].to = "pending" /\ request' = request
    BY <1>4 DEF AskRead, Call
  <2> QED
    BY <1>4, <2>1 DEF AskRead, New
<1>5. ASSUME NEW q \in Requests, NEW t \in Statuses, Read(s, q, t)
      PROVE  Fits(session[s].on, session[s].to)'
  <2>1. session'[s].on = q /\ session'[s].to = t /\ request' = request
    BY <1>5 DEF Read, Call
  <2>2. <<request[q].status, t>> \in Transitions /\ t # "pending"
    BY <1>5 DEF Read, Transitions
  <2> QED
    BY <2>1, <2>2
<1>6. ASSUME Look(s) PROVE Fits(session[s].on, session[s].to)'
  <2>1. /\ session'[s].to = session[s].to /\ session[s].to = "applied"
        /\ session'[s].on = session[s].on /\ request' = request /\ session[s].stage = "read"
    BY <1>6 DEF Look, Session
  <2>2. Fits(session[s].on, session[s].to)
    BY <2>1 DEF Current, InCall
  <2> QED
    BY <2>1, <2>2
<1>7. ASSUME \/ Commit(s) \/ ApplyFails(s) \/ Apply(s) \/ Abort(s) \/ EditCommit(s)
             \/ DeleteCommit(s) \/ (\E q \in Changes : OpenChange(s, q))
             \/ (\E e \in Edits : EditRead(s, e)) \/ (\E o \in Owners : DeleteRead(s, o))
      PROVE  FALSE
  <2>1. session'[s].stage \in {"idle", "editing", "deleting"}
    BY <1>7
    DEF Commit, ApplyFails, Apply, Abort, EditCommit, DeleteCommit, OpenChange, EditRead,
        DeleteRead, Idle, Call
  <2> QED
    BY <2>1 DEF InCall
<1>8. ASSUME NEW t \in Sessions, t # s,
             \/ \E q \in Changes : OpenChange(t, q)
             \/ \E q \in Asks : AskRead(t, q)
             \/ \E q \in Requests, u \in Statuses : Read(t, q, u)
             \/ Commit(t) \/ Look(t) \/ ApplyFails(t) \/ Apply(t) \/ Abort(t)
             \/ \E e \in Edits : EditRead(t, e)
             \/ EditCommit(t)
             \/ \E o \in Owners : DeleteRead(t, o)
             \/ DeleteCommit(t)
      PROVE  Fits(session[s].on, session[s].to)'
  <2>1. session'[s] = session[s]
    BY <1>8
    DEF OpenChange, AskRead, Read, Commit, Look, ApplyFails, Apply, Abort, EditRead, EditCommit,
        DeleteRead, DeleteCommit
  <2>2. \/ request' = request
        \/ \E r \in Serves[t] \cap Requests : \A q \in Requests \ {r} : request'[q] = request[q]
    BY <1>8
    DEF OpenChange, AskRead, Read, Commit, Look, ApplyFails, Apply, Abort, EditRead, EditCommit,
        DeleteRead, DeleteCommit, Begun, InCall, Requests
  <2> QED
    BY <1>2, <1>3, <1>8, <2>1, <2>2
<1> QED
  BY <1>1, <1>4, <1>5, <1>6, <1>7, <1>8 DEF Next

\* A call that is to write is one that the life cycle still allows.
LEMMA CurrentCall ==
  ASSUME Current, NEW s \in Sessions, InCall(s), Alone(session[s].on)
  PROVE  /\ request[session[s].on].status \notin Terminal
         /\ session[s].to = "applied" => request[session[s].on].status \in {"approved", "pending"}
         /\ session[s].to = "pending" =>
              \A r \in Asks : SameType(session[s].on, r) => request[r].status # "pending"
BY DEF Current, Transitions, Terminal

-----------------------------------------------------------------------------
(* Owners, and pending asks.                                               *)

\* The foreign key is looked at whenever the column is written.
LEMMA AppliedOwner ==
  ASSUME OwnerExists, NEW q, NEW a, Referenced(q, a)
  PROVE  Applied(q, a).owner \in owners \cup {NoOwner}
BY DEF OwnerExists, Referenced, Applied, Written, OwnerFound

LEMMA OwnerExistsStep == TypeOK /\ OwnerExists /\ [Next]_vars => OwnerExists'
<1> SUFFICES ASSUME TypeOK, OwnerExists, [Next]_vars PROVE OwnerExists'
  OBVIOUS
<1>1. ASSUME NEW s \in Sessions, Apply(s) PROVE OwnerExists'
  BY <1>1, AppliedOwner DEF Apply, OwnerExists
<1>2. ASSUME NEW s \in Sessions, EditCommit(s) PROVE OwnerExists'
  BY <1>2, AppliedOwner DEF EditCommit, OwnerExists
<1>3. ASSUME NEW s \in Sessions, DeleteCommit(s) PROVE OwnerExists'
  BY <1>3 DEF DeleteCommit, Bereft, OwnerExists, TypeOK, Asset
<1> QED
  BY <1>1, <1>2, <1>3
  DEF Next, OpenChange, AskRead, Read, Commit, Look, ApplyFails, Abort, EditRead, DeleteRead,
      vars, OwnerExists

\* An ask becomes pending in one way.
LEMMA PendingByCommit ==
  ASSUME TypeOK, Begun, Next, NEW q \in Asks, request'[q].status = "pending",
         request[q].status # "pending"
  PROVE  \E s \in Sessions :
           /\ InCall(s) /\ session[s].on = q /\ session[s].to = "pending"
           /\ \A r \in Requests \ {q} : request'[r] = request[r]
<1> USE DEF TypeOK, Requests
<1>1. ASSUME NEW s \in Sessions, NEW r \in Changes, OpenChange(s, r) PROVE FALSE
  BY <1>1 DEF OpenChange, Noted
<1>2. ASSUME NEW s \in Sessions, Apply(s) PROVE FALSE
  BY <1>2 DEF Apply, Noted
<1>3. ASSUME NEW s \in Sessions, ApplyFails(s) PROVE FALSE
  BY <1>3 DEF ApplyFails, Request
<1>4. ASSUME NEW s \in Sessions, Commit(s)
      PROVE  /\ InCall(s) /\ session[s].on = q /\ session[s].to = "pending"
             /\ \A r \in Requests \ {q} : request'[r] = request[r]
  BY <1>4 DEF Commit, Noted, InCall
<1> QED
  BY <1>1, <1>2, <1>3, <1>4
  DEF Next, AskRead, Read, Look, Abort, EditRead, EditCommit, DeleteRead, DeleteCommit

LEMMA OnePendingStep == TypeOK /\ Begun /\ Current /\ OnePending /\ [Next]_vars => OnePending'
<1> SUFFICES ASSUME TypeOK, Begun, Current, OnePending, [Next]_vars,
                    NEW q \in Asks, NEW r \in Asks, Alone(q), SameType(q, r),
                    request'[q].status = "pending", request'[r].status = "pending"
             PROVE  q = r
  BY Zenon DEF OnePending
<1>1. CASE UNCHANGED vars
  BY <1>1 DEF vars, OnePending
<1>2. Alone(r) /\ SameType(r, q)
  BY TypesTogether
<1>3. ASSUME NEW x \in Asks, NEW y \in Asks, Next, Alone(x), SameType(x, y), x # y,
             request'[x].status = "pending", request[x].status # "pending",
             request'[y].status = "pending"
      PROVE  FALSE
  <2>1. PICK s \in Sessions :
          /\ InCall(s) /\ session[s].on = x /\ session[s].to = "pending"
          /\ \A z \in Requests \ {x} : request'[z] = request[z]
    BY <1>3, PendingByCommit
  <2>2. request[y].status = "pending"
    BY <1>3, <2>1 DEF Requests
  <2> QED
    BY <1>3, <2>1, <2>2, CurrentCall
<1>4. CASE Next /\ request[q].status = "pending" /\ request[r].status = "pending"
  BY <1>4 DEF OnePending
<1> QED
  BY <1>1, <1>2, <1>3, <1>4

-----------------------------------------------------------------------------
(* The invariant.                                                          *)

LEMMA InvInit == Init => RequestInv
<1> SUFFICES ASSUME Init PROVE RequestInv
  OBVIOUS
<1>1. Told /\ OnePending
  BY DEF Init, Told, OnePending, Requests
<1>2. Begun /\ Current
  BY DEF Init, Begun, Current, InCall, Idle, Call
<1>3. OwnerExists
  BY DEF Init, OwnerExists, Blank
<1> QED
  BY <1>1, <1>2, <1>3, TypeInit DEF RequestInv

LEMMA InvStep == RequestInv /\ [Next]_vars => RequestInv'
BY TypeStep, ToldStep, BegunStep, CurrentStep, OwnerExistsStep, OnePendingStep, Zenon DEF RequestInv

\* The events of a request tell the truth of it, and where the calls for one do
\* not overlap what a session has read of it stays so until it commits.
THEOREM Invariant == Spec => []RequestInv
<1> QED
  BY InvInit, InvStep, PTL DEF Spec

\* Rows, and what a session remembers of them, have the types of the columns: a
\* flush that skips what is not proposed writes no other value.
THEOREM Typed == Spec => []TypeOK
<1>1. RequestInv => TypeOK
  BY DEF RequestInv
<1> QED
  BY <1>1, Invariant, PTL

\* Even where calls overlap, and a status is written over one that was not the one
\* read, an applied change is one that was reviewed and approved.
THEOREM Approved == Spec => []AppliedWasApproved
<1>1. RequestInv => AppliedWasApproved
  BY DEF RequestInv, AppliedWasApproved, Told, Preceded, Requests
<1> QED
  BY <1>1, Invariant, PTL

\* No table is left to an owner that was deleted, whoever was writing it.
THEOREM Owned == Spec => []OwnerExists
<1>1. RequestInv => OwnerExists
  BY DEF RequestInv
<1> QED
  BY <1>1, Invariant, PTL

\* The lookup of a pending ask suffices where the calls for its type do not overlap.
THEOREM Single == Spec => []OnePending
<1>1. RequestInv => OnePending
  BY DEF RequestInv
<1> QED
  BY <1>1, Invariant, PTL

\* What a request does to the table is committed with its decision, or not at all.
THEOREM Effects == Spec => EffectWithDecision
<1>1. RequestInv /\ [Next]_vars =>
        \A s \in Sessions :
          InCall(s) /\ session'[s] # session[s] /\ asset' # asset =>
            LET q == session[s].on IN
              /\ request'[q].status = "applied"
              /\ Alone(q) => request[q].status \in {"approved", "pending"}
  <2> SUFFICES ASSUME RequestInv, [Next]_vars, NEW s \in Sessions,
                      InCall(s), session'[s] # session[s], asset' # asset
               PROVE  /\ request'[session[s].on].status = "applied"
                      /\ Alone(session[s].on) =>
                           request[session[s].on].status \in {"approved", "pending"}
    OBVIOUS
  <2> USE DEF RequestInv, TypeOK
  <2>1. session[s].on \in Requests
    BY DEF Begun
  <2>2. ASSUME NEW t \in Sessions, EditCommit(t) \/ DeleteCommit(t) PROVE FALSE
    BY <2>2 DEF EditCommit, DeleteCommit, InCall
  <2>3. ASSUME NEW t \in Sessions, Apply(t) PROVE Apply(s)
    BY <2>3 DEF Apply
  <2>4. Apply(s)
    BY <2>2, <2>3
    DEF Next, OpenChange, AskRead, Read, Commit, Look, ApplyFails, Abort, EditRead, DeleteRead, vars
  <2>5. request'[session[s].on].status = "applied" /\ session[s].to = "applied"
    BY <2>1, <2>4 DEF Apply, Noted, Begun
  <2> QED
    BY <2>5, CurrentCall
<1> QED
  BY <1>1, Invariant, PTL DEF Spec, EffectWithDecision

-----------------------------------------------------------------------------
(* The life cycle that calls implement.                                    *)

LoneRequests == LoneChanges \cup LoneAsks

\* What the abstract status becomes when a request takes one, lone or not.
LEMMA StatusTaken ==
  ASSUME NEW q \in Requests, NEW t,
         \A r \in Requests : request'[r].status = IF r = q THEN t ELSE request[r].status
  PROVE  /\ q \in LoneRequests => LoneStatus' = [LoneStatus EXCEPT ![q] = t]
         /\ q \notin LoneRequests => LoneStatus' = LoneStatus
BY DEF LoneStatus, LoneRequests, LoneChanges, LoneAsks, Requests

LEMMA LoneStatusOf == \A q \in LoneRequests : LoneStatus[q] = request[q].status
BY DEF LoneStatus, LoneRequests

\* The two modules name the same steps of a status.
LEMMA SameSteps == \A st, t : <<st, t>> \in Transitions <=> <<st, t>> \in Abstract!Follows
BY DEF Transitions, Abstract!Follows, Abstract!Stages

\* A call that is to write does what the life cycle allows of its request.
LEMMA CallMoves ==
  ASSUME TypeOK, Begun, Current, NEW s \in Sessions, InCall(s), session[s].to \in Statuses,
         request' = [request EXCEPT ![session[s].on] = Noted(session[s].on, session[s].to)]
  PROVE  Abstract!Next \/ LoneStatus' = LoneStatus
<1> DEFINE q == session[s].on
           t == session[s].to
<1>1. q \in Requests /\ (t = "pending" => q \in Asks)
  BY DEF Begun
<1>2. \A r \in Requests : request'[r].status = IF r = q THEN t ELSE request[r].status
  BY <1>1 DEF TypeOK, Noted
<1>3. CASE q \notin LoneRequests
  BY <1>1, <1>2, <1>3, StatusTaken
<1>4. CASE q \in LoneRequests
  <2>1. Alone(q) /\ LoneStatus[q] = request[q].status
    BY <1>4, LoneStatusOf DEF LoneRequests, LoneChanges, LoneAsks
  <2>2. LoneStatus' = [LoneStatus EXCEPT ![q] = t]
    BY <1>1, <1>2, <1>4, StatusTaken
  <2>3. CASE t = "pending"
    <3>1. /\ q \in LoneAsks /\ request[q].status = "free"
          /\ \A r \in Asks : SameType(q, r) => request[r].status # "pending"
      BY <1>1, <2>1, <2>3 DEF Current, LoneAsks
    <3>2. \A r \in LoneAsks : <<q, r>> \in Rivals => LoneStatus[r] # "pending"
      BY <3>1, LoneStatusOf DEF Rivals, LoneRequests, LoneAsks
    <3>3. Abstract!Ask(q)
      BY <2>1, <2>2, <2>3, <3>1, <3>2 DEF Abstract!Ask
    <3> QED
      BY <3>1, <3>3 DEF Abstract!Next
  <2>4. CASE t # "pending"
    <3>1. <<request[q].status, t>> \in Transitions
      BY <2>1, <2>4 DEF Current
    <3>2. t \in Abstract!Stages \cup {"applied", "rejected"}
      BY <3>1 DEF Transitions, Abstract!Stages
    <3>3. Abstract!Move(q, t)
      BY <2>1, <2>2, <3>1, SameSteps DEF Abstract!Move
    <3> QED
      BY <1>4, <3>2, <3>3 DEF Abstract!Next, LoneRequests
  <2> QED
    BY <2>3, <2>4
<1> QED
  BY <1>3, <1>4

LEMMA LifeInit == Init => Abstract!Init
BY DEF Init, Abstract!Init, LoneStatus, LoneChanges, LoneAsks, Requests

LEMMA LifeStep == RequestInv /\ [Next]_vars => [Abstract!Next]_LoneStatus
<1> SUFFICES ASSUME RequestInv, [Next]_vars PROVE Abstract!Next \/ LoneStatus' = LoneStatus
  OBVIOUS
<1>0. TypeOK /\ Begun /\ Current
  BY DEF RequestInv
<1>1. ASSUME NEW s \in Sessions, NEW q \in Changes, OpenChange(s, q)
      PROVE  Abstract!Next \/ LoneStatus' = LoneStatus
  <2>1. \A r \in Requests : request'[r].status = IF r = q THEN "draft" ELSE request[r].status
    <3>1. q \in Requests /\ request' = [request EXCEPT ![q] = Noted(q, "draft")]
      BY <1>1 DEF OpenChange, Requests
    <3> QED
      BY <1>0, <3>1 DEF TypeOK, Noted
  <2>2. CASE q \in LoneChanges
    <3>1. LoneStatus' = [LoneStatus EXCEPT ![q] = "draft"] /\ LoneStatus[q] = "free"
      BY <1>1, <2>1, <2>2, StatusTaken, LoneStatusOf DEF OpenChange, Requests, LoneRequests
    <3> QED
      BY <2>2, <3>1 DEF Abstract!Next, Abstract!Open
  <2>3. CASE q \notin LoneChanges
    <3>1. q \notin LoneRequests
      BY <2>3, SubjectsAssumption DEF LoneRequests, LoneAsks
    <3> QED
      BY <2>1, <3>1, StatusTaken DEF Requests
  <2> QED
    BY <2>2, <2>3
<1>2. ASSUME NEW s \in Sessions, Commit(s) PROVE Abstract!Next \/ LoneStatus' = LoneStatus
  <2>1. InCall(s) /\ session[s].to \in Statuses
    BY <1>0, <1>2, InCallType DEF Commit, InCall
  <2> QED
    BY <1>0, <1>2, <2>1, CallMoves DEF Commit
<1>3. ASSUME NEW s \in Sessions, Apply(s) PROVE Abstract!Next \/ LoneStatus' = LoneStatus
  <2>1. InCall(s) /\ session[s].to = "applied" /\ "applied" \in Statuses
    BY <1>0, <1>3, InCallType DEF Apply, InCall, Statuses
  <2> QED
    BY <1>0, <1>3, <2>1, CallMoves DEF Apply
<1>4. ASSUME NEW s \in Sessions, ApplyFails(s) PROVE LoneStatus' = LoneStatus
  <2>1. session[s].on \in Requests
    BY <1>0, <1>4, InCallType DEF ApplyFails
  <2>2. \A r \in Requests : request'[r].status = request[r].status
    BY <1>0, <1>4, <2>1 DEF ApplyFails, TypeOK, Request
  <2> QED
    BY <2>2 DEF LoneStatus, LoneChanges, LoneAsks, Requests
<1>5. CASE request' = request
  BY <1>5 DEF LoneStatus
<1> QED
  BY <1>1, <1>2, <1>3, <1>4, <1>5
  DEF Next, AskRead, Read, Look, Abort, EditRead, EditCommit, DeleteRead, DeleteCommit, vars

\* The calls for a request that do not overlap are the steps of its life cycle, for any
\* sessions, whatever edits, deletions and other requests do between their statements.
THEOREM RequestsAreDecided == Spec => ImplementsLifeCycle
BY LifeInit, LifeStep, Invariant, PTL DEF Spec, ImplementsLifeCycle, Abstract!Spec

=============
