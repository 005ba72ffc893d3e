--------------------------- MODULE AssetRequests ---------------------------
(***************************************************************************)
(* Changes to the metadata of a table, and to who owns it: metadata change *)
(* requests (features/governance/change_management.py), stewardship        *)
(* requests (features/stewardship/workflow.py), edits that need no request *)
(* (features/catalog/metadata_actions.py) and the deletion of data owners  *)
(* (api/data_owners.py), all on one table.                                 *)
(*                                                                         *)
(* An API thread serves each call in one transaction at READ COMMITTED: it *)
(* reads the request, decides, and writes.  Nothing is locked or compared  *)
(* in between, and the ORM writes the columns whose value differs from     *)
(* the one it read, and no other.  A change request is drafted, reviewed,  *)
(* approved and applied; a stewardship request, an ask, is pending until   *)
(* it is approved, which applies it.                                       *)
(***************************************************************************)
EXTENDS FiniteSets

CONSTANTS
  Changes,  \* ids of change requests
  Asks,     \* ids of stewardship requests
  Edits,    \* edits, made over and over again
  Sessions, \* the threads that serve calls
  Serves,   \* [Sessions -> SUBSET Subjects]: what comes to each
  Owners,   \* data owners
  Texts,    \* values of a table's description and classification
  Proposed, \* what each request or edit proposes, or Same where it does not
  NoOwner, Same, NoText, Nobody

Requests == Changes \cup Asks
Subjects == Requests \cup Edits

ASSUME SubjectsAssumption == /\ Changes \cap Asks = {} /\ Edits \cap Requests = {}
                             /\ Owners \cap Subjects = {} /\ Nobody \notin Subjects
ASSUME ServesAssumption   == Serves \in [Sessions -> SUBSET Subjects]
ASSUME ValuesAssumption   == /\ NoOwner \notin Owners /\ NoText \in Texts
                             /\ Same \notin Owners \cup Texts \cup {NoOwner}
ASSUME ProposedAssumption ==
  /\ Proposed \in [Subjects -> [owner : Owners \cup {NoOwner, Same}, text : Texts \cup {Same}]]
  /\ \A q \in Asks : \/ Proposed[q].owner \in Owners /\ Proposed[q].text = Same
                     \/ Proposed[q].owner = Same /\ Proposed[q].text \in Texts

VARIABLES
  request, \* the rows of both tables, with their events
  asset,   \* the table: its owner, the name of its owner, and its text
  owners,  \* the rows of data_owners
  session  \* the call each thread is serving

vars == <<request, asset, owners, session>>

-----------------------------------------------------------------------------
\* An ask's status approved is called applied here.
Statuses == {"free", "draft", "review", "approved", "applied", "rejected", "pending"}

Terminal == {"applied", "rejected"}

Request == [status : Statuses, events : SUBSET (Statuses \cup {"apply_failed"})]

\* The id and the copy of the name of the owner are columns of the table.
Asset == [owner : Owners \cup {NoOwner}, name : Owners \cup {NoOwner}, text : Texts]

\* read: it has read the request; looked: it has read the table too.
Session == [stage : {"idle", "read", "looked", "editing", "deleting"}, to : Statuses,
            on : Subjects \cup Owners \cup {Nobody}, seen : Asset]

Blank == [owner |-> NoOwner, name |-> NoOwner, text |-> NoText]

Call(stage, t, x, a) == [stage |-> stage, to |-> t, on |-> x, seen |-> a]

Idle == Call("idle", "free", Nobody, Blank)

TypeOK ==
  /\ request \in [Requests -> Request]
  /\ asset \in Asset
  /\ owners \in SUBSET Owners
  /\ session \in [Sessions -> Session]

\* Mutant of Transitions: approved on review, a change can be applied.
TransitionsSkipApproval ==
  {<<"draft", "review">>, <<"review", "approved">>, <<"review", "applied">>,
   <<"approved", "applied">>, <<"pending", "applied">>}
  \cup {<<st, "rejected">> : st \in {"draft", "review", "approved", "pending"}}

\* _request_allowed_transitions; only pending asks can be decided.
Transitions ==
  {<<"draft", "review">>, <<"review", "approved">>,
   <<"approved", "applied">>, <<"pending", "applied">>}
  \cup {<<st, "rejected">> : st \in {"draft", "review", "approved", "pending"}}

SameType(q, r) == q \in Asks /\ r \in Asks /\ (Proposed[q].text = Same <=> Proposed[r].text = Same)

\* It proposes nothing of the table's: a change of its service level.
Sla(q) == Proposed[q].owner = Same /\ Proposed[q].text = Same

\* What it proposes is what the table shows.
UpToDate(q) == asset.owner = Proposed[q].owner \/ asset.text = Proposed[q].text

\* The owner it proposes can be found.
OwnerFound(q) == Proposed[q].owner \in owners \cup {NoOwner, Same}

-----------------------------------------------------------------------------
(* The columns that a flush writes.                                        *)

Written(seen, now, new) == IF new = Same \/ new = seen THEN now ELSE new

\* The table once q is applied by a session that has seen it as a.
Applied(q, a) ==
  [owner |-> Written(a.owner, asset.owner, Proposed[q].owner),
   name  |-> Written(a.name, asset.name, Proposed[q].owner),
   text  |-> Written(a.text, asset.text, Proposed[q].text)]

\* The owner it proposes is the table's as it was seen, or can be found: what a session
\* asks for, and the foreign key when the column is written.
Referenced(q, a) == Proposed[q].owner = a.owner \/ OwnerFound(q)

\* The table once o is deleted by a session that has seen it as a: the tables
\* that it saw o own, and whatever the foreign key sets to null.
Bereft(o, a) ==
  IF a.owner = o
    THEN [asset EXCEPT !.owner = NoOwner, !.name = Written(a.name, asset.name, NoOwner)]
    ELSE [asset EXCEPT !.owner = IF @ = o THEN NoOwner ELSE @]

-----------------------------------------------------------------------------
(* Creation.                                                               *)

Noted(q, t) == [status |-> t, events |-> request[q].events \cup {t}]

\* Mutant of New: a request that was decided is opened again.
NewAgain(q) == request[q].status \in {"free"} \cup Terminal /\ \A s \in Sessions : session[s].on # q

New(q) == request[q].status = "free" /\ \A s \in Sessions : session[s].on # q

OpenChange(s, q) ==
  /\ session[s] = Idle
  /\ q \in Serves[s] \cap Changes
  /\ request[q].status = "free"
  /\ request' = [request EXCEPT ![q] = Noted(q, "draft")]
  /\ UNCHANGED <<asset, owners, session>>

\* Mutant of AskRead: pending asks are not looked for.
AskReadDuplicate(s, q) ==
  /\ session[s] = Idle
  /\ q \in Serves[s] \cap Asks
  /\ New(q)
  /\ ~ UpToDate(q) /\ OwnerFound(q)
  /\ session' = [session EXCEPT ![s] = Call("read", "pending", q, Blank)]
  /\ UNCHANGED <<request, asset, owners>>

\* No ask of its type is pending, and what it proposes is valid.  The id is new.
AskRead(s, q) ==
  /\ session[s] = Idle
  /\ q \in Serves[s] \cap Asks
  /\ New(q)
  /\ \A r \in Asks : SameType(q, r) => request[r].status # "pending"
  /\ ~ UpToDate(q) /\ OwnerFound(q)
  /\ session' = [session EXCEPT ![s] = Call("read", "pending", q, Blank)]
  /\ UNCHANGED <<request, asset, owners>>

-----------------------------------------------------------------------------
(* Decisions.                                                              *)

\* The table comes with its request, with an ask always.
Read(s, q, t) ==
  /\ session[s] = Idle
  /\ q \in Serves[s]
  /\ <<request[q].status, t>> \in Transitions
  /\ session' = [session EXCEPT ![s] = Call("read", t, q, IF t = "applied" THEN asset ELSE Blank)]
  /\ UNCHANGED <<request, asset, owners>>

\* The status is committed, and its event: creation of an ask, review, approval
\* of a change, and every rejection.
Commit(s) ==
  /\ session[s].stage = "read" /\ session[s].to # "applied"
  /\ request' = [request EXCEPT ![session[s].on] = Noted(session[s].on, session[s].to)]
  /\ session' = [session EXCEPT ![s] = Idle]
  /\ UNCHANGED <<asset, owners>>

\* The table of a change whose id was given is read now.  The new owner is found, in
\* the session itself if the table was read with it.
Look(s) ==
  /\ session[s].stage = "read" /\ session[s].to = "applied"
  /\ ~ Sla(session[s].on)
  /\ \E a \in {session[s].seen} \cup IF session[s].on \in Changes THEN {asset} ELSE {} :
       /\ Referenced(session[s].on, a)
       /\ session' = [session EXCEPT ![s].stage = "looked", ![s].seen = a]
  /\ UNCHANGED <<request, asset, owners>>

\* Mutant of ApplyFails: the text is assigned before the owner is looked for.
ApplyFailsHalfWay(s) ==
  /\ session[s].stage = "read" /\ session[s].to = "applied"
  /\ session[s].on \in Changes /\ ~ OwnerFound(session[s].on)
  /\ asset' = [asset EXCEPT !.text = Written(@, @, Proposed[session[s].on].text)]
  /\ request' = [request EXCEPT ![session[s].on].events = @ \cup {"apply_failed"}]
  /\ session' = [session EXCEPT ![s] = Idle]
  /\ UNCHANGED owners

\* 422, the owner is not found: a change request commits that, and is left as it was.
ApplyFails(s) ==
  /\ session[s].stage = "read" /\ session[s].to = "applied"
  /\ session[s].on \in Changes /\ ~ OwnerFound(session[s].on)
  /\ request' = [request EXCEPT ![session[s].on].events = @ \cup {"apply_failed"}]
  /\ session' = [session EXCEPT ![s] = Idle]
  /\ UNCHANGED <<asset, owners>>

\* Mutant of Apply: there is no foreign key.
ApplyUnchecked(s) ==
  /\ session[s].stage = "looked"
  /\ LET q == session[s].on IN
       /\ asset' = Applied(q, session[s].seen)
       /\ request' = [request EXCEPT ![q] = Noted(q, "applied")]
  /\ session' = [session EXCEPT ![s] = Idle]
  /\ UNCHANGED owners

\* The table, the status and its event are committed together.
Apply(s) ==
  /\ session[s].stage = "looked"
  /\ LET q == session[s].on IN
       /\ Referenced(q, session[s].seen)
       /\ asset' = Applied(q, session[s].seen)
       /\ request' = [request EXCEPT ![q] = Noted(q, "applied")]
  /\ session' = [session EXCEPT ![s] = Idle]
  /\ UNCHANGED owners

\* Any other exception rolls back: an ask whose owner is not found, the foreign
\* key, and every change of a service level, whose call passes an argument that
\* upsert_asset_sla does not have.
Abort(s) ==
  /\ session[s].stage # "idle"
  /\ session' = [session EXCEPT ![s] = Idle]
  /\ UNCHANGED <<request, asset, owners>>

-----------------------------------------------------------------------------
(* Edits of the table, and deletion of an owner, forced where it still has *)
(* tables.                                                                 *)

EditRead(s, e) ==
  /\ session[s] = Idle
  /\ e \in Serves[s] \cap Edits
  /\ OwnerFound(e)
  /\ session' = [session EXCEPT ![s] = Call("editing", "free", e, asset)]
  /\ UNCHANGED <<request, asset, owners>>

EditCommit(s) ==
  /\ session[s].stage = "editing"
  /\ Referenced(session[s].on, session[s].seen)
  /\ asset' = Applied(session[s].on, session[s].seen)
  /\ session' = [session EXCEPT ![s] = Idle]
  /\ UNCHANGED <<request, owners>>

DeleteRead(s, o) ==
  /\ session[s] = Idle
  /\ o \in owners
  /\ session' = [session EXCEPT ![s] = Call("deleting", "free", o, asset)]
  /\ UNCHANGED <<request, asset, owners>>

DeleteCommit(s) ==
  /\ session[s].stage = "deleting"
  /\ asset' = Bereft(session[s].on, session[s].seen)
  /\ owners' = owners \ {session[s].on}
  /\ session' = [session EXCEPT ![s] = Idle]
  /\ UNCHANGED request

-----------------------------------------------------------------------------
Init ==
  /\ request = [q \in Requests |-> [status |-> "free", events |-> {}]]
  /\ asset = Blank
  /\ owners = Owners
  /\ session = [s \in Sessions |-> Idle]

Next ==
  \E s \in Sessions :
    \/ \E q \in Changes : OpenChange(s, q)
    \/ \E q \in Asks : AskRead(s, q)
    \/ \E q \in Requests, t \in Statuses : Read(s, q, t)
    \/ Commit(s)
    \/ Look(s) \/ ApplyFails(s) \/ Apply(s)
    \/ Abort(s)
    \/ \E e \in Edits : EditRead(s, e)
    \/ EditCommit(s)
    \/ \E o \in Owners : DeleteRead(s, o)
    \/ DeleteCommit(s)

Spec == Init /\ [][Next]_vars

-----------------------------------------------------------------------------
\* q, and the asks that are pending instead of it, come to one session.
Together(q) == {q} \cup {r \in Asks : SameType(q, r)}

Alone(q) == \A s, t \in Sessions :
              Serves[s] \cap Together(q) # {} /\ Serves[t] \cap Together(q) # {} => s = t

\* However calls overlap, a change is applied only after it was reviewed and
\* approved: this is what remains of a life cycle whose status is read, and
\* written later over whatever it is by then.
AppliedWasApproved ==
  \A q \in Changes : "applied" \in request[q].events =>
                       {"draft", "review", "approved"} \subseteq request[q].events

\* The owner of the table exists, although owners are deleted between the look
\* and the commit of a request.
OwnerExists == asset.owner \in owners \cup {NoOwner}

\* One ask of each type is pending, where the calls for the type do not overlap.
OnePending ==
  \A q, r \in Asks :
    Alone(q) /\ SameType(q, r) /\ request[q].status = "pending"
      /\ request[r].status = "pending" => q = r

\* What makes these hold: the events tell every status that a request has had, and
\* a change has had them in order;
Preceded(q, t) == /\ t = "review"   => "draft" \in request[q].events
                  /\ t = "approved" => "review" \in request[q].events
                  /\ t = "applied"  => "approved" \in request[q].events

Told ==
  \A q \in Requests :
    /\ request[q].status \in request[q].events \cup {"free"}
    /\ q \in Changes => /\ request[q].status # "pending"
                        /\ \A t \in request[q].events : Preceded(q, t)

\* a call is about what came to its session, and was a step of the life cycle when
\* it was read;
InCall(s) == session[s].stage \in {"read", "looked"}

Begun ==
  \A s \in Sessions :
    /\ session[s].stage = "deleting" => session[s].on \in Owners
    /\ session[s].stage = "editing" => session[s].on \in Edits
    /\ session[s].stage = "looked" => session[s].to = "applied"
    /\ InCall(s) => /\ session[s].on \in Serves[s] \cap Requests
                    /\ session[s].to = "pending" => session[s].on \in Asks
                    /\ session[s].on \in Changes => Preceded(session[s].on, session[s].to)

\* and where calls do not overlap it still is.
Current ==
  \A s \in Sessions :
    InCall(s) /\ Alone(session[s].on) =>
      LET q == session[s].on IN
        \/ /\ session[s].to = "pending" /\ request[q].status = "free"
           /\ \A r \in Asks : SameType(q, r) => request[r].status # "pending"
        \/ session[s].to # "pending" /\ <<request[q].status, session[s].to>> \in Transitions

RequestInv == TypeOK /\ Told /\ Begun /\ Current /\ OwnerExists /\ OnePending

\* A call about a request that changes the table is one that applies it: nothing
\* remains of an apply that fails.  Where the calls for the request do not overlap,
\* it was approved, or pending, until then.
EffectWithDecision ==
  [][\A s \in Sessions :
       InCall(s) /\ session'[s] # session[s] /\ asset' # asset =>
         LET q == session[s].on IN
           /\ request'[q].status = "applied"
           /\ Alone(q) => request[q].status \in {"approved", "pending"}]_vars

\* Each call is a step of the life cycle: the statuses of the requests whose calls do not
\* overlap change as in LifeCycle, though each is read in one statement and written in
\* another, and the tables, edits and deletions go on beside them.
LoneChanges == {q \in Changes : Alone(q)}
LoneAsks    == {q \in Asks : Alone(q)}
LoneStatus  == [q \in LoneChanges \cup LoneAsks |-> request[q].status]
Rivals      == {pair \in Asks \X Asks : SameType(pair[1], pair[2])}

Abstract == INSTANCE LifeCycle WITH
  Changes <- LoneChanges, Asks <- LoneAsks, Alike <- Rivals, status <- LoneStatus

ImplementsLifeCycle == Abstract!Spec

\* What both refusals say of every request: one that was decided is not decided again.  It
\* does not hold, for the status is not read again when the decision is committed.
OnlyPendingDecided ==
  [][\A q \in Requests : request[q].status \in Terminal =>
                            request'[q].status = request[q].status]_vars

=============================================================================
