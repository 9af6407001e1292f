------------------------------ MODULE Passthrough ------------------------------
(***************************************************************************)
(* An operator's cancel, retry, resume or remove of a Lingarr request from *)
(* the page of an intent: act() fetches the request, makes sure that it is *)
(* one of the intent's, forwards the action, and writes an audit row.  In  *)
(* between the request may move on, go, or be acted on by someone else.    *)
(***************************************************************************)
EXTENDS Naturals, FiniteSets

CONSTANTS
  Acting,      \* the sessions of operators
  Ledger,      \* the intents: [type, media, title, source, target]
  Asked,       \* what Lingarr may be asked for: like an intent, media perhaps unknown
  Conversions, \* CODE2_CONVERSIONS, as a function of the codes it converts
  MaxRequests, MaxActs,
  NoMedia, NoRequest, NoAct

VARIABLES
  requests,    \* requests[n]: what the n-th request asks for, or NoRequest (external)
  asked,       \* how many there have been (external)
  linked,      \* the instance has a Lingarr
  act,         \* act[o]: the action o has under way, or NoAct
  acts,        \* how many there have been
  performed,   \* what Lingarr has done at an operator's behest (external)
  audit,       \* the passthrough_action rows
  interrupted  \* the actions the process stopped in

passthroughVars == <<requests, asked, linked, act, acts, performed, audit, interrupted>>
lingarrVars == <<requests, asked, performed>>

Actions == {"cancel", "retry", "resume", "remove"}

PassthroughInit ==
  /\ requests = [n \in 1 .. MaxRequests |-> NoRequest] /\ asked = 0
  /\ linked \in BOOLEAN
  /\ act = [o \in Acting |-> NoAct] /\ acts = 0
  /\ performed = {} /\ audit = {} /\ interrupted = {}

\* Lingarr stores a code as Bazarr has it, or converted.
LingarrCodes(code) == {code} \cup {Conversions[c] : c \in {code} \cap DOMAIN Conversions}

\* An action knows its request, and no two intents of a film differ only in
\* codes that Lingarr writes alike.
ASSUME PassthroughAssumption ==
  /\ MaxRequests \in Nat /\ MaxActs \in Nat
  /\ NoRequest \notin Asked
  /\ NoAct \notin [no : 1 .. MaxActs, intent : Ledger, request : 1 .. MaxRequests,
                   action : Actions, status : {"sent", "ok", "failed"}]
  /\ \A i, j \in Ledger :
       /\ i.media # NoMedia
       /\ /\ i.type = "Movie" /\ j.type = "Movie" /\ i.media = j.media
          /\ LingarrCodes(i.source) \cap LingarrCodes(j.source) # {}
          /\ LingarrCodes(i.target) \cap LingarrCodes(j.target) # {}
          => i = j
  /\ \A record \in Asked : record.type \in {"Movie", "Episode"}

\* Mutant of Matches: by title and languages alone.
MatchesTitle(intent, record) ==
  /\ record.title = intent.title
  /\ record.source \in LingarrCodes(intent.source)
  /\ record.target \in LingarrCodes(intent.target)

\* matching_lingarr_records_episode, matching_lingarr_records_movie
Matches(intent, record) ==
  /\ record.type = intent.type
  /\ record.type = "Movie" => record.media \in {NoMedia, intent.media}
  /\ record.title = intent.title
  /\ record.source \in LingarrCodes(intent.source)
  /\ record.target \in LingarrCodes(intent.target)

\* Up to the match: whatever fails here leaves no trace.
BeginAct(o, intent, n, action) ==
  /\ act[o] = NoAct /\ acts < MaxActs /\ linked
  /\ requests[n] # NoRequest /\ Matches(intent, requests[n])
  /\ acts' = acts + 1
  /\ act' = [act EXCEPT ![o] = [no |-> acts + 1, intent |-> intent, request |-> n,
                                action |-> action, status |-> "sent"]]
  /\ UNCHANGED <<lingarrVars, linked, audit, interrupted>>

Answered(o, status) == act' = [act EXCEPT ![o].status = status]

\* Lingarr does as it is told, and its answer arrives or not.  What becomes of
\* the status of a request is left out.
Perform(o) ==
  /\ act[o] # NoAct /\ act[o].status = "sent" /\ requests[act[o].request] # NoRequest
  /\ LET n == act[o].request IN
       /\ CASE act[o].action = "remove" ->
                 requests' = [requests EXCEPT ![n] = NoRequest] /\ UNCHANGED asked
            [] act[o].action = "retry" ->
                 /\ asked < MaxRequests /\ asked' = asked + 1
                 /\ requests' = [requests EXCEPT ![asked + 1] = requests[n]]
            [] OTHER -> UNCHANGED <<requests, asked>>
       /\ performed' = performed \cup
            {[no |-> act[o].no, intent |-> act[o].intent, record |-> requests[n]]}
  /\ \E status \in {"ok", "failed"} : Answered(o, status)
  /\ UNCHANGED <<linked, acts, audit, interrupted>>

\* The request has gone, or Lingarr cannot be reached.
Refuse(o) ==
  /\ act[o] # NoAct /\ act[o].status = "sent"
  /\ Answered(o, "failed")
  /\ UNCHANGED <<lingarrVars, linked, acts, audit, interrupted>>

AuditRow(o) == [no |-> act[o].no, intent |-> act[o].intent, action |-> act[o].action,
                actor |-> o, status |-> act[o].status]

\* Mutant of Audit: failures are returned and not recorded.
AuditSuccess(o) ==
  /\ act[o] # NoAct /\ act[o].status # "sent"
  /\ audit' = audit \cup {r \in {AuditRow(o)} : r.status = "ok"}
  /\ act' = [act EXCEPT ![o] = NoAct]
  /\ UNCHANGED <<lingarrVars, linked, acts, interrupted>>

Audit(o) ==
  /\ act[o] # NoAct /\ act[o].status # "sent"
  /\ audit' = audit \cup {AuditRow(o)}
  /\ act' = [act EXCEPT ![o] = NoAct]
  /\ UNCHANGED <<lingarrVars, linked, acts, interrupted>>

\* The process stops before the row is committed.
Interrupt(o) ==
  /\ act[o] # NoAct
  /\ interrupted' = interrupted \cup {act[o].no}
  /\ act' = [act EXCEPT ![o] = NoAct]
  /\ UNCHANGED <<lingarrVars, linked, acts, audit>>

ToggleLink ==
  /\ linked' = ~ linked
  /\ UNCHANGED <<lingarrVars, act, acts, audit, interrupted>>

RequestArrives(record) ==
  /\ asked < MaxRequests /\ asked' = asked + 1
  /\ requests' = [requests EXCEPT ![asked + 1] = record]
  /\ UNCHANGED <<linked, act, acts, performed, audit, interrupted>>

PassthroughNext ==
  \/ ToggleLink
  \/ \E o \in Acting :
       \/ Perform(o) \/ Refuse(o) \/ Audit(o) \/ Interrupt(o)
       \/ \E intent \in Ledger, n \in 1 .. MaxRequests, action \in Actions : BeginAct(o, intent, n, action)
  \/ \E record \in Asked : RequestArrives(record)

PassthroughSpec == PassthroughInit /\ [][PassthroughNext]_passthroughVars
-----------------------------------------------------------------------------
\* "Always audit-logged": whatever Lingarr has done at an operator's behest is in
\* the audit trail of the intent, also when its answer did not arrive, unless the
\* process has stopped in between; and nothing is logged as done that was not.
AuditTellsAll ==
  /\ \A done \in performed :
       \/ done.no \in interrupted
       \/ \E o \in Acting : act[o] # NoAct /\ act[o].no = done.no
       \/ \E row \in audit : row.no = done.no /\ row.intent = done.intent
  /\ \A row \in audit : row.status = "ok" => \E done \in performed : done.no = row.no

\* An action reaches no request that another intent can claim with better right:
\* not one of another movie, of a series for a movie of the same name, or of
\* another pair of languages, however Lingarr writes them.
NeverActsOnOthers ==
  \A done \in performed : \A other \in Ledger :
    /\ other.type = done.record.type /\ other.title = done.record.title
    /\ done.record.source \in LingarrCodes(other.source)
    /\ done.record.target \in LingarrCodes(other.target)
    /\ done.record.type = "Movie" => other.media = done.record.media
    => \/ done.intent = other
       \/ done.record.type = "Episode" /\ done.intent.type = "Episode"
            /\ done.intent.title = other.title
=============================================================================
