---------------------------- MODULE CassetteReplay ----------------------------
(***************************************************************************)
(* The replay engine: the calls that were recorded make a cassette, and an *)
(* agent that is run again gets its answers from it.                       *)
(*                                                                         *)
(* The agent is any sequence of calls.  A call is its target, for method   *)
(* and URL, and its body; the response recorded i-th is the number i.      *)
(***************************************************************************)
EXTENDS Naturals, FiniteSetsExt, Sequences, Functions

CONSTANTS
    Recordings,     \* sequences of captured elements: [kind, request, source]
    Calls,          \* the calls agents make: [target, body]
    NoRequest,      \* an element that has none
    MaxCalls        \* bound: calls of one agent

NoBody == "none"        \* a call without a body
EmptyBody == "empty"    \* a body, but an empty one

IsCall(request) == request = [target |-> request.target, body |-> request.body]

ASSUME CassetteAssumption ==
    /\ MaxCalls \in Nat
    /\ \A call \in Calls : IsCall(call)
    /\ \A r \in Recordings : r \in Seq(Range(r)) /\ \A e \in Range(r) :
         /\ e = [kind |-> e.kind, request |-> e.request, source |-> e.source]
         /\ e.request = NoRequest \/ IsCall(e.request)

VARIABLES
    cassette,       \* the entries, and whether calls must come in their order
    session,        \* cursor, misses, and what the agent called and got
    outcome         \* replay_status

cassetteVars == <<cassette, session, outcome>>

-----------------------------------------------------------------------------
(* What is replayed: the elements an incident was posted with, or the       *)
(* events that a verification record made of them.                          *)

(* an HTTP exchange becomes a tool call, a tool element does too, and then  *)
(* gets the request it may lack                                             *)
sdk_element_to_event(e) ==
    [e EXCEPT !.kind = IF @ = "http" THEN IF e.request = NoRequest THEN "api_response" ELSE "tool_call"
                       ELSE IF @ = "tool" THEN "tool_call" ELSE @]

Wrapped(e) ==
    IF e.kind = "tool_call" /\ e.request = NoRequest
    THEN [e EXCEPT !.request = [target |-> e.source, body |-> EmptyBody]] ELSE e

_snapshot_from_vr(elements) ==
    [i \in DOMAIN elements |-> Wrapped(sdk_element_to_event(elements[i]))]

Nowhere == [target |-> "nowhere", body |-> NoBody]   \* GET of an empty URL

(* the entries, in the order of the recording *)
Entries(elements) ==
    LET played[i \in 0..Len(elements)] ==
          IF i = 0 THEN <<>>
          ELSE IF elements[i].kind \notin {"http", "tool_call", "api_response"} THEN played[i - 1]
          ELSE Append(played[i - 1],
                      IF elements[i].request = NoRequest THEN Nowhere ELSE elements[i].request)
    IN  played[Len(elements)]

-----------------------------------------------------------------------------
(* lookup: the entry that answers a call, 0 for none.                       *)

_call_signature(call) == IF call.body = EmptyBody THEN [call EXCEPT !.body = NoBody] ELSE call

_matches(entry, call) ==
    /\ entry.target = call.target
    /\ call.body \in {NoBody, entry.body}

\* Mutant: calls that the agent left out are passed over.
InOrderOrLater(entries, cursor, call) ==
    LET later == {i \in cursor + 1..Len(entries) : _matches(entries[i], call)}
    IN  IF later = {} THEN 0 ELSE Min(later)

InOrder(entries, cursor, call) ==
    IF cursor < Len(entries) /\ _matches(entries[cursor + 1], call) THEN cursor + 1 ELSE 0

(* of entries with one signature the last has taken the place of the first; *)
(* a call without a body is also answered by the first one that has a body  *)
BySignature(entries, call) ==
    LET Signed(c) == {i \in DOMAIN entries : _call_signature(entries[i]) = _call_signature(c)}
        similar == {i \in DOMAIN entries :
                      entries[i].target = call.target /\ entries[i].body # NoBody}
    IN  IF Signed(call) # {} THEN Max(Signed(call))
        ELSE IF call.body = NoBody /\ similar # {} THEN Max(Signed(entries[Min(similar)]))
        ELSE 0

lookup(call) ==
    IF cassette.strict_order THEN InOrder(cassette.entries, session.cursor, call)
    ELSE BySignature(cassette.entries, call)

-----------------------------------------------------------------------------
(* replay_snapshot *)

NewSession == [cursor |-> 0, misses |-> 0, answers |-> <<>>]

CassetteInit ==
    /\ \E r \in Recordings, strict \in BOOLEAN, promoted \in BOOLEAN :
         cassette = [strict_order |-> strict,
                     entries |-> Entries(IF promoted THEN _snapshot_from_vr(r) ELSE r)]
    /\ session = NewSession
    /\ outcome = "running"

(* an answer in order moves the cursor on; a miss leaves it *)
Lookup(call) ==
    /\ outcome = "running"
    /\ Len(session.answers) < MaxCalls
    /\ LET got == lookup(call)
       IN  session' = [cursor |-> IF cassette.strict_order /\ got # 0 THEN got ELSE session.cursor,
                       misses |-> session.misses + (IF got = 0 THEN 1 ELSE 0),
                       answers |-> Append(session.answers, [call |-> call, got |-> got])]
    /\ UNCHANGED <<cassette, outcome>>

unconsumed_count == Len(cassette.entries) - session.cursor

(* the agent decides *)
Decide ==
    /\ outcome = "running"
    /\ outcome' = IF cassette.strict_order /\ (session.misses > 0 \/ unconsumed_count > 0)
                  THEN "escalation_required" ELSE "replayed"
    /\ UNCHANGED <<cassette, session>>

(* the agent raises *)
Raise ==
    /\ outcome = "running"
    /\ outcome' = "error"
    /\ UNCHANGED <<cassette, session>>

CassetteNext == (\E call \in Calls : Lookup(call)) \/ Decide \/ Raise

CassetteSpec == CassetteInit /\ [][CassetteNext]_cassetteVars

-----------------------------------------------------------------------------
InTheirOrder ==
    (cassette.strict_order /\ outcome = "replayed") =>
        /\ Len(session.answers) = Len(cassette.entries)
        /\ \A i \in DOMAIN session.answers :
             LET answer == session.answers[i]
                 entry == cassette.entries[i]
             IN  answer.got = i /\ answer.call \in {entry, [entry EXCEPT !.body = NoBody]}

InAnyOrder ==
    ~ cassette.strict_order =>
        \A i \in DOMAIN session.answers :
            LET answer == session.answers[i]
                entries == cassette.entries
            IN  /\ \A j \in DOMAIN session.answers :
                     session.answers[j].call = answer.call => session.answers[j] = answer
                /\ answer.got # 0 =>
                     /\ entries[answer.got].target = answer.call.target
                     /\ answer.call.body \notin {NoBody, EmptyBody} =>
                          entries[answer.got].body = answer.call.body
                /\ \A k \in DOMAIN entries :
                     (/\ entries[k] = answer.call
                      /\ \A n \in DOMAIN entries \ {k} :
                           _call_signature(entries[n]) # _call_signature(entries[k]))
                       => answer.got = k

(* What a replay reports is what was recorded.  One that keeps the order    *)
(* and reports "replayed" made the recorded calls, all of them and in their *)
(* order, however the agent went about it.  One that does not keep the      *)
(* order answers a call the same way whenever it is made, never from a      *)
(* recording of another target, nor of another body when it has one; a      *)
(* request that was recorded once gets its own response.  All routes replay *)
(* without the order, so of repeated requests the earlier responses are     *)
(* never given (replay.py:129-146, cassette.py:63-106).                     *)
ReplayIsFaithful == InTheirOrder /\ InAnyOrder
=============================================================================
