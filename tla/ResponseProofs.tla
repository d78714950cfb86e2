--------------------------- MODULE ResponseProofs ---------------------------
(* Proofs about Response, for every size of the send buffer and any number *)
(* of changes of the session.                                              *)
EXTENDS Response, TLAPS

-----------------------------------------------------------------------------
(* The inductive invariant.  It says, for a client that still reads and    *)
(* as long as no exception came late, where each step finds the client's   *)
(* parser and Transfer-Encoding.                                           *)

Sound == client = "reads" /\ failed # "late"

(* Nothing is sent yet.                                                    *)
Unbegun == reader = "start" /\ ~frozen /\ te # "chunked"

(* The header is sent, and the parser expects the body it announces.       *)
InBody == reader = IF te = "chunked" THEN "chunks" ELSE "plain"

InChunks == frozen /\ te = "chunked" /\ reader = "chunks"

(* Closing now leaves nothing unfinished, given the closing chunk.         *)
MayClose == IF te = "chunked" THEN reader = "chunks"
            ELSE reader \in {"start", "plain", "complete"}

HeaderSteps == {"status", "merge", "encode", "head", "freeze"}

StepShape ==
  /\ step = "idle" /\ stage = "action" =>
       (Unbegun /\ te = "unset") \/ InChunks
  /\ step = "idle" /\ stage = "handler" => InBody
  /\ step = "close" => MayClose
  /\ step = "fields" => IF frozen THEN reader # "start" ELSE Unbegun /\ te = "unset"
  /\ step = "status" => Unbegun
  /\ step = "notfound" => reader = "start" /\ te = "unset"
  /\ step = "merge" => reader = "line" /\ ~frozen /\ te # "chunked"
  /\ step \in {"encode", "head"} => reader = "line"
  /\ step = "freeze" => InBody
  /\ step \in {"template", "chunk", "size"} => InChunks
  /\ step \in {"data", "crlf"} =>
       frozen /\ te = "chunked" /\ reader = IF step = "data" THEN "size" ELSE "data"
  /\ step = "body" => te = "deleted" /\ reader = "plain"

(* The plans of the steps, and what they do to Transfer-Encoding.          *)
PlanShape ==
  /\ step = "fields" => plan \in {"file", "xfile", "redirect"}
  /\ step \in {"encode", "head", "freeze"} =>
       IF plan = "redirect" THEN te # "chunked" /\ step # "freeze" ELSE te # "unset"
  /\ step \in HeaderSteps \ {"encode", "head"} => plan # "redirect" \/ step = "status"
  /\ step \in HeaderSteps /\ plan = "file" => te = "deleted"
  /\ stage = "action" /\ step \in HeaderSteps /\ te = "deleted" => plan \in {"file", "xfile"}
  /\ stage = "handler" => plan = "header" /\ step \in HeaderSteps \cup {"idle"}

DispatchShape == Unbegun /\ te = "unset" /\ step = "idle" /\ failed = "no"

Shape ==
  /\ stage = "dispatch" => DispatchShape
  /\ stage \in {"action", "handler"} => StepShape /\ PlanShape

(* After an early exception the handler runs, and 500 is what it sends.    *)
EarlyShape ==
  failed = "early" =>
    /\ stage \in {"handler", "closed"} /\ status = "error"
    /\ reader # "start" => answered = "error"
    /\ stage = "closed" => reader # "start"

(* A late exception is one after the first byte, for good.                 *)
LateBegun == failed = "late" => reader # "start"

(* The cookie is the session from its encoding on, as the session changes  *)
(* only before the header.                                                 *)
CookieShape ==
  /\ step = "head" => cookie = session
  /\ reader \in {"chunks", "size", "data", "plain", "complete"} /\ answered # "notfound" =>
       /\ cookie = session
       /\ stage = "action" => frozen \/ step \in {"freeze", "close"}
  /\ stage = "dispatch" => reader = "start"

(* No call is under way before the action and after the closing.           *)
Nobody == stage \in {"dispatch", "closed"} => step = "idle"

IInv == /\ TypeOK /\ WireValid /\ AnswersComplete
        /\ LateBegun /\ Nobody /\ CookieShape
        /\ Sound => Shape /\ EarlyShape

-----------------------------------------------------------------------------
(* Every step preserves the types.                                         *)
LEMMA TypeStep == TypeOK /\ [Next]_vars => TypeOK'
<1> SUFFICES ASSUME TypeOK, [Next]_vars PROVE TypeOK'
  OBVIOUS
<1> USE RoomAssumption, MaxUpdatesAssumption
    DEF RoomAssumption, MaxUpdatesAssumption, TypeOK, Plans, Steps, Readers, callVars, headerVars, wireVars
<1>1. CASE Dispatch
  BY <1>1 DEF Dispatch
<1>2. CASE SendHeader
  BY <1>2 DEF SendHeader, Call
<1>3. CASE SendChunk
  BY <1>3 DEF SendChunk, Call, HeaderUnless
<1>4. CASE Render
  BY <1>4 DEF Render, Call, HeaderUnless
<1>5. CASE SendFile
  BY <1>5 DEF SendFile, Call
<1>6. CASE Redirect
  BY <1>6 DEF Redirect, Call
<1>7. CASE Halt
  BY <1>7 DEF Halt, Call
<1>8. CASE UpdateSession
  BY <1>8 DEF UpdateSession
<1>9. CASE Raise
  BY <1>9 DEF Raise, Raised, MayRaise, HandleError
<1>10. CASE SetFields
  BY <1>10 DEF SetFields, Raised, HandleError
<1>11. CASE Merge
  BY <1>11 DEF Merge, Go, Raised, HandleError
<1>12. CASE Encode
  BY <1>12 DEF Encode, Go
<1>13. CASE Freeze
  BY <1>13 DEF Freeze, Go, Freezes, AfterHeader
<1>14. CASE RunTemplate
  BY <1>14 DEF RunTemplate, Go
<1>15. CASE Chunk
  BY <1>15 DEF Chunk, Go, EmptyChunk, AfterChunk
<1>16. CASE Write
  BY <1>16 DEF Write, Go, Sent, ReadBy, Parse, Raised, HandleError,
               AfterWrite, AfterChunk, Frames
<1>17. CASE Close
  <2>1. CASE ClosingChunk /\ client = "reads" /\ room > 0
    BY <1>17, <2>1 DEF Close, Sent, ReadBy, Parse
  <2>2. CASE ClosingChunk /\ client = "reads" /\ ~(room > 0)
    BY <1>17, <2>2 DEF Close
  <2>3. CASE ~(ClosingChunk /\ client = "reads")
    BY <1>17, <2>3 DEF Close
  <2> QED BY <2>1, <2>2, <2>3
<1>18. CASE Drain
  BY <1>18 DEF Drain
<1>19. CASE Disconnect
  BY <1>19 DEF Disconnect
<1>20. CASE Closed
  BY <1>20 DEF Closed, vars
<1>21. CASE UNCHANGED vars
  BY <1>21 DEF vars
<1> QED
  BY <1>1, <1>2, <1>3, <1>4, <1>5, <1>6, <1>7, <1>8, <1>9, <1>10, <1>11, <1>12,
     <1>13, <1>14, <1>15, <1>16, <1>17, <1>18, <1>19, <1>20, <1>21
  DEF Next

-----------------------------------------------------------------------------
(* Every step preserves the inductive invariant.  A write and the closing  *)
(* chunk move the client's parser, so their cases go part by part.         *)
LEMMA InvariantStep == IInv /\ [Next]_vars => IInv'
<1> SUFFICES ASSUME IInv, [Next]_vars PROVE IInv'
  OBVIOUS
<1>0. TypeOK'
  BY TypeStep DEF IInv
<1> USE <1>0
    DEF IInv, TypeOK, WireValid, AnswersComplete, LateBegun, Nobody, CookieShape,
        Sound, Shape, EarlyShape, DispatchShape, StepShape, PlanShape, Unbegun, InBody,
        InChunks, MayClose, HeaderSteps, callVars, headerVars, wireVars
<1>1. CASE Dispatch
  BY <1>1 DEF Dispatch
<1>2. CASE SendHeader
  BY <1>2 DEF SendHeader, Call
<1>3. CASE SendChunk
  BY <1>3 DEF SendChunk, Call, HeaderUnless
<1>4. CASE Render
  BY <1>4 DEF Render, Call, HeaderUnless
<1>5. CASE SendFile
  BY <1>5 DEF SendFile, Call
<1>6. CASE Redirect
  BY <1>6 DEF Redirect, Call
<1>7. CASE Halt
  BY <1>7 DEF Halt, Call
<1>8. CASE UpdateSession
  BY <1>8 DEF UpdateSession
<1>9. CASE Raise
  BY <1>9 DEF Raise, Raised, MayRaise, HandleError
<1>10. CASE SetFields
  BY <1>10 DEF SetFields, Raised, HandleError
<1>11. CASE Merge
  BY <1>11 DEF Merge, Go, Raised, HandleError
<1>12. CASE Encode
  BY <1>12 DEF Encode, Go
<1>13. CASE Freeze
  BY <1>13 DEF Freeze, Go, Freezes, AfterHeader
<1>14. CASE RunTemplate
  BY <1>14 DEF RunTemplate, Go
<1>15. CASE Chunk
  BY <1>15 DEF Chunk, Go, EmptyChunk, AfterChunk
<1>16. CASE Write
  <2>1. (WireValid /\ LateBegun /\ Nobody)'
    BY <1>16 DEF Write, Go, Sent, ReadBy, Parse, Raised, HandleError,
                 AfterWrite, AfterChunk, Frames
  <2>2. AnswersComplete'
    BY <1>16 DEF Write, Go, Sent, ReadBy, Parse, Raised, HandleError,
                 AfterWrite, AfterChunk, Frames
  <2>3. CookieShape'
    BY <1>16 DEF Write, Go, Sent, ReadBy, Parse, Raised, HandleError,
                 AfterWrite, AfterChunk, Frames
  <2>4. (Sound => Shape)'
    BY <1>16 DEF Write, Go, Sent, ReadBy, Parse, Raised, HandleError,
                 AfterWrite, AfterChunk, Frames
  <2>5. (Sound => EarlyShape)'
    BY <1>16 DEF Write, Go, Sent, ReadBy, Parse, Raised, HandleError,
                 AfterWrite, AfterChunk, Frames
  <2> QED BY <2>1, <2>2, <2>3, <2>4, <2>5
<1>17. CASE Close
  <2>1. (WireValid /\ LateBegun /\ Nobody)'
    BY <1>17 DEF Close, Sent, ReadBy, Parse, ClosingChunk
  <2>2. AnswersComplete'
    BY <1>17 DEF Close, Sent, ReadBy, Parse, ClosingChunk
  <2>3. CookieShape'
    BY <1>17 DEF Close, Sent, ReadBy, Parse, ClosingChunk
  <2>4. (Sound => Shape)'
    BY <1>17 DEF Close, Sent, ReadBy, Parse, ClosingChunk
  <2>5. (Sound => EarlyShape)'
    BY <1>17 DEF Close, Sent, ReadBy, Parse, ClosingChunk
  <2> QED BY <2>1, <2>2, <2>3, <2>4, <2>5
<1>18. CASE Drain
  BY <1>18 DEF Drain
<1>19. CASE Disconnect
  BY <1>19 DEF Disconnect
<1>20. CASE Closed
  BY <1>20 DEF Closed, vars
<1>21. CASE UNCHANGED vars
  BY <1>21 DEF vars
<1> QED
  BY <1>1, <1>2, <1>3, <1>4, <1>5, <1>6, <1>7, <1>8, <1>9, <1>10, <1>11, <1>12,
     <1>13, <1>14, <1>15, <1>16, <1>17, <1>18, <1>19, <1>20, <1>21
  DEF Next

(* The inductive invariant holds in every reachable state.                 *)
LEMMA Invariant == Spec => []IInv
<1>1. Init => IInv
  <2> SUFFICES ASSUME Init PROVE IInv
    OBVIOUS
  <2>1. TypeOK
    <3>1. frozen \in BOOLEAN /\ cut \in BOOLEAN
      BY Zenon DEF Init
    <3>2. session \in 1..(MaxUpdates + 1) /\ cookie \in 0..(MaxUpdates + 1) /\ room \in 0..Room
      BY RoomAssumption, MaxUpdatesAssumption
      DEF RoomAssumption, MaxUpdatesAssumption, Init
    <3> QED BY <3>1, <3>2 DEF Init, TypeOK, Plans, Steps, Readers
  <2>2. WireValid /\ AnswersComplete /\ LateBegun /\ Nobody /\ CookieShape
    BY DEF Init, WireValid, AnswersComplete, LateBegun, Nobody, CookieShape
  <2>3. Shape /\ EarlyShape
    BY DEF Init, Shape, DispatchShape, Unbegun, EarlyShape
  <2> QED BY <2>1, <2>2, <2>3 DEF IInv
<1> QED BY <1>1, InvariantStep, PTL DEF Spec

(* The types of all variables are right in every reachable state.          *)
THEOREM ResponseTypeCorrect == Spec => []TypeOK
<1>1. IInv => TypeOK
  BY DEF IInv
<1> QED BY <1>1, Invariant, PTL

(* Whatever mix of sending methods an action calls, with blocked writes    *)
(* and exceptions before the first byte, a client reads one well-formed    *)
(* response.                                                               *)
THEOREM WireValidAlways == Spec => []WireValid
<1>1. IInv => WireValid
  BY DEF IInv
<1> QED BY <1>1, Invariant, PTL

(* No response is left unfinished but for a closing chunk without room.    *)
THEOREM AnswersCompleteAlways == Spec => []AnswersComplete
<1>1. IInv => AnswersComplete
  BY DEF IInv
<1> QED BY <1>1, Invariant, PTL

(* An exception before the first byte is answered with 500.                *)
THEOREM ErrorsShowAlways == Spec => []ErrorsShow
<1>1. IInv => ErrorsShow
  BY DEF IInv, ErrorsShow, Sound, EarlyShape
<1> QED BY <1>1, Invariant, PTL

(* The cookie of a response is the session its action ends with.           *)
THEOREM SessionSentAlways == Spec => []SessionSent
<1>1. IInv => SessionSent
  BY DEF IInv, SessionSent, CookieShape
<1> QED BY <1>1, Invariant, PTL
=============================================================================
