------------------------------ MODULE Response ------------------------------
(***************************************************************************)
(* What one action sends back: Controller.dispatch, the sending methods of *)
(* Controller (lib/nyara/controller.rb), View#render and View#end, and the *)
(* writes of ext/request.c, up to the closing of the connection.           *)
(*                                                                         *)
(* A call of the action is a walk through steps; each step that writes may *)
(* wait for room in the send buffer (the fiber yields :writing) or fail    *)
(* because the client is gone.  An exception anywhere ends in handle_error.*)
(* What the client makes of the bytes is kept as the state of its parser   *)
(* (reader), so that the wire needs no history.  Definitions marked "bug"  *)
(* are not part of the model.                                              *)
(***************************************************************************)
EXTENDS Naturals

CONSTANTS Room,       \* how many writes the send buffer takes
          MaxUpdates  \* bound: how often the action changes its session

ASSUME RoomAssumption == Room \in Nat \ {0}
ASSUME MaxUpdatesAssumption == MaxUpdates \in Nat

VARIABLES
  stage,    \* who runs: dispatch, the action, its error handler, nobody
  plan,     \* the call that is under way
  step,     \* its next step, or idle
  status,   \* p->status
  te,       \* Transfer-Encoding in response_header
  frozen,   \* response_header, session and flash.next are frozen
  session,  \* version of the session, from 1
  cookie,   \* version in the encoded Set-Cookie line; 0: not encoded
  client,   \* the client still reads, or is gone
  room,     \* what the send buffer takes before a write blocks
  reader,   \* where the client's parser stands
  answered, \* the status the client read
  failed,   \* ghost: an exception, early (nothing sent yet) or late
  cut       \* ghost: the closing chunk found no room

vars == <<stage, plan, step, status, te, frozen, session, cookie,
          client, room, reader, answered, failed, cut>>
callVars == <<plan, step>>
headerVars == <<status, te, frozen, session, cookie>>
wireVars == <<room, reader, answered>>

Plans == {"none", "header", "chunk", "render", "file", "xfile", "redirect",
          "notfound", "halt"}
Steps == {"idle", "fields", "status", "merge", "encode", "head", "freeze", "template",
          "chunk", "size", "data", "crlf", "body", "notfound", "close"}
Readers == {"start", "line", "chunks", "size", "data", "plain", "complete", "broken"}

TypeOK ==
  /\ stage \in {"dispatch", "action", "handler", "closed"}
  /\ plan \in Plans /\ step \in Steps
  /\ status \in {"ok", "redirect", "error"}
  /\ te \in {"unset", "chunked", "deleted"}
  /\ frozen \in BOOLEAN
  /\ session \in 1..(MaxUpdates + 1) /\ cookie \in 0..(MaxUpdates + 1)
  /\ client \in {"reads", "gone"}
  /\ room \in 0..Room
  /\ reader \in Readers
  /\ answered \in {"none", "ok", "redirect", "error", "notfound"}
  /\ failed \in {"no", "early", "late"}
  /\ cut \in BOOLEAN

Init ==
  /\ stage = "dispatch" /\ plan = "none" /\ step = "idle"
  /\ status = "ok" /\ te = "unset" /\ frozen = FALSE
  /\ session = 1 /\ cookie = 0
  /\ client = "reads" /\ room = Room
  /\ reader = "start" /\ answered = "none"
  /\ failed = "no" /\ cut = FALSE

-----------------------------------------------------------------------------
(* The calls                                                               *)

(* What follows send_header in each of the calls, and what follows a chunk.*)
AfterHeader ==
  CASE plan = "file" -> "body"
    [] plan = "chunk" -> "chunk"
    [] plan = "render" -> "template"
    [] plan = "header" -> "idle"
    [] OTHER -> "close"
AfterChunk == IF plan = "render" THEN "close" ELSE "idle"

Call(p, first) == /\ stage = "action" /\ step = "idle"
                  /\ plan' = p /\ step' = first
                  /\ UNCHANGED <<stage, headerVars, client, wireVars, failed, cut>>

(* "send_header unless request.response_header.frozen?"                    *)
HeaderFirst(first) == "status"                      \* bug: header sent again
HeaderUnless(first) == IF frozen THEN first ELSE "status"

(* An action that calls send_header itself does it once.                   *)
SendHeader == ~frozen /\ Call("header", "status")
SendChunk == Call("chunk", HeaderUnless("chunk"))
(* render; also stream's last part, sent by View#end.                      *)
Render == Call("render", HeaderUnless("template"))
SendFile == \E p \in {"file", "xfile"} : Call(p, "fields")
Redirect == Call("redirect", "fields")
Halt == Call("halt", "close")

(* dispatch: the action of the route, a public file, or 404.               *)
Dispatch ==
  /\ stage = "dispatch"
  /\ stage' = "action"
  /\ \/ UNCHANGED callVars
     \/ plan' \in {"file", "xfile"} /\ step' = "fields"
     \/ plan' = "notfound" /\ step' = "notfound"
  /\ UNCHANGED <<headerVars, client, wireVars, failed, cut>>

UpdateSession ==
  /\ stage = "action" /\ step = "idle"
  /\ ~frozen /\ session <= MaxUpdates
  /\ session' = session + 1
  /\ UNCHANGED <<stage, callVars, status, te, frozen, cookie, client,
                 wireVars, failed, cut>>

-----------------------------------------------------------------------------
(* Exceptions                                                              *)

(* dispatch rescues what the action raises and calls handle_error: status  *)
(* 500 and send_header; what that raises is swallowed.                     *)
HandleErrorSilent ==                                \* bug: error only logged
  stage' = "handler" /\ step' = "idle" /\ UNCHANGED <<plan, status>>
HandleError ==
  stage' = "handler" /\ plan' = "header" /\ step' = "status" /\ status' = "error"

Raised ==
  /\ failed' = IF reader = "start" THEN "early" ELSE "late"
  /\ IF stage = "action" THEN HandleError
     ELSE step' = "idle" /\ UNCHANGED <<stage, plan, status>>

(* What may raise: the action's own code, reading the file to send, the    *)
(* template, and Session.encode.                                           *)
MayRaise ==
  /\ stage \in {"action", "handler"}
  /\ \/ stage = "action" /\ step = "idle"
     \/ step = "status" /\ plan = "file"
     \/ step \in {"template", "encode"}

Raise ==
  /\ MayRaise /\ Raised
  /\ UNCHANGED <<te, frozen, session, cookie, client, wireVars, cut>>

-----------------------------------------------------------------------------
(* The steps of a call                                                     *)

Go(next) == step' = next /\ UNCHANGED <<stage, plan, status, failed>>

(* send_file and redirect set header fields first, which raises if the     *)
(* header is frozen; send_file deletes Transfer-Encoding.                  *)
SetFields ==
  /\ step = "fields"
  /\ IF frozen
     THEN Raised /\ UNCHANGED te
     ELSE /\ step' = "status"
          /\ te' = IF plan = "redirect" THEN te ELSE "deleted"
          /\ status' = IF plan = "redirect" THEN "redirect" ELSE status
          /\ UNCHANGED <<stage, plan, failed>>
  /\ UNCHANGED <<frozen, session, cookie, client, wireVars, cut>>

(* send_header merges the default header fields, after a write to the      *)
(* header that raises if it is frozen; redirect does not merge.            *)
Merge ==
  /\ step = "merge"
  /\ IF frozen
     THEN Raised /\ UNCHANGED te
     ELSE Go("encode") /\ te' = IF te = "unset" THEN "chunked" ELSE te
  /\ UNCHANGED <<frozen, session, cookie, client, wireVars, cut>>

Encode ==
  /\ step = "encode"
  /\ Go("head") /\ cookie' = session
  /\ UNCHANGED <<te, frozen, session, client, wireVars, cut>>

FreezesNothing == frozen' = frozen                  \* bug: header not frozen
Freezes == frozen' = TRUE

Freeze ==
  /\ step = "freeze"
  /\ Go(AfterHeader) /\ Freezes
  /\ UNCHANGED <<te, session, cookie, client, wireVars, cut>>

RunTemplate ==
  /\ step = "template"
  /\ Go("chunk")
  /\ UNCHANGED <<te, frozen, session, cookie, client, wireVars, cut>>

(* The client's parser; an empty chunk would be the end of the body.       *)
Parse(frame) ==
  CASE reader = "start" /\ frame = "status" -> "line"
    [] reader = "start" /\ frame = "notfound" -> "complete"
    [] reader = "line" /\ frame = "head" -> IF te = "chunked" THEN "chunks" ELSE "plain"
    [] reader = "chunks" /\ frame = "size" -> "size"
    [] reader = "size" /\ frame = "data" -> "data"
    [] reader = "data" /\ frame = "crlf" -> "chunks"
    [] reader = "chunks" /\ frame = "end" -> "complete"
    [] reader = "plain" /\ frame = "body" -> "plain"
    [] OTHER -> "broken"

ReadBy(frame) ==
  /\ reader' = Parse(frame)
  /\ answered' = IF reader # "start" THEN answered
                 ELSE IF frame = "status" THEN status ELSE "notfound"

Sent(frame) ==
  /\ client = "reads" /\ room > 0
  /\ room' = room - 1
  /\ ReadBy(frame)

(* ext_request_send_chunk returns at once for an empty string.             *)
EmptyChunkSent == Sent("end")                       \* bug: "0\r\n\r\n"
EmptyChunk == UNCHANGED wireVars
Chunk ==
  /\ step = "chunk"
  /\ \/ Go("size") /\ UNCHANGED wireVars
     \/ Go(AfterChunk) /\ EmptyChunk
  /\ UNCHANGED <<te, frozen, session, cookie, client, cut>>

(* What is written, and the step after it.                                 *)
AfterWrite ==
  CASE step = "status" -> IF plan = "redirect" THEN "encode" ELSE "merge"
    [] step = "head" -> IF plan = "redirect" THEN "close" ELSE "freeze"
    [] step = "size" -> "data"
    [] step = "data" -> "crlf"
    [] step = "crlf" -> AfterChunk
    [] OTHER -> "close"
Frames == {"status", "head", "size", "data", "crlf", "body", "notfound"}

(* A write waits for room.  With the client gone it fails: send_data goes  *)
(* on all the same, send_chunk raises.                                     *)
Write ==
  /\ step \in Frames
  /\ \/ Sent(step) /\ Go(AfterWrite)
     \/ /\ client = "gone"
        /\ IF step \in {"size", "data", "crlf"} THEN Raised ELSE Go(AfterWrite)
        /\ UNCHANGED wireVars
  /\ UNCHANGED <<te, frozen, session, cookie, client, cut>>

(* term_close, or the end of the action or of its handler: the closing     *)
(* chunk is written once, if it fits, when the response is chunked.        *)
ClosesAlways == TRUE                                \* bug: header not looked at
ClosesNever == FALSE                                \* bug: no closing chunk
ClosingChunk == te = "chunked"
Close ==
  /\ \/ step = "close"
     \/ step = "idle" /\ stage \in {"action", "handler"}
  /\ stage' = "closed" /\ step' = "idle"
  /\ IF ClosingChunk /\ client = "reads"
     THEN IF room > 0 THEN Sent("end") /\ UNCHANGED cut
          ELSE cut' = TRUE /\ UNCHANGED wireVars
     ELSE UNCHANGED <<wireVars, cut>>
  /\ UNCHANGED <<plan, headerVars, client, failed>>

-----------------------------------------------------------------------------
(* The client                                                              *)

Drain ==
  /\ client = "reads" /\ stage # "closed" /\ room < Room
  /\ room' = Room
  /\ UNCHANGED <<stage, callVars, headerVars, client, reader, answered, failed, cut>>

Disconnect ==
  /\ client = "reads" /\ stage # "closed"
  /\ client' = "gone"
  /\ UNCHANGED <<stage, callVars, headerVars, wireVars, failed, cut>>

Closed == stage = "closed" /\ UNCHANGED vars

Next == \/ Dispatch
        \/ SendHeader \/ SendChunk \/ Render \/ SendFile \/ Redirect \/ Halt
        \/ UpdateSession \/ Raise
        \/ SetFields \/ Merge \/ Encode \/ Freeze \/ RunTemplate \/ Chunk
        \/ Write \/ Close
        \/ Drain \/ Disconnect
        \/ Closed

Spec == Init /\ [][Next]_vars

-----------------------------------------------------------------------------
(* Properties                                                              *)

(* What the client reads is a well-formed response or the beginning of     *)
(* one, through every mix of sending methods, blocked writes and failures  *)
(* before the first byte: one header, chunks only in a chunked response,   *)
(* nothing after the end.                                                  *)
WireValid == failed # "late" => reader # "broken"

(* The same for an exception at any time: once a response is under way,    *)
(* an error is only logged (handle_error).                                 *)
ErrorOnlyLogged == reader # "broken"

(* When the connection is closed, a client that still reads has got the    *)
(* whole of the response, if any was begun; only the closing chunk may be  *)
(* missing, for want of room.                                              *)
AnswersComplete ==
  stage = "closed" /\ client = "reads" /\ failed # "late" =>
    reader \in {"start", "complete", "plain"} \/ (cut /\ reader = "chunks")

(* An action that raised before it sent anything is answered with 500.     *)
ErrorsShow ==
  stage = "closed" /\ client = "reads" /\ failed = "early" => answered = "error"

(* No change of the session is lost without an exception: once the header  *)
(* is sent, its cookie is the session the action ends with.                *)
SessionSent ==
  reader \in {"chunks", "plain", "complete"} /\ answered # "notfound" => cookie = session
=============================================================================
