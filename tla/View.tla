-------------------------------- MODULE View --------------------------------
(***************************************************************************)
(* Views, lib/nyara/view.rb: a page in its layouts is rendered at once, or *)
(* as a stream, whose template runs in a fiber and is flushed wherever it  *)
(* pauses.  Templates of stream-friendly engines (erb, slim, haml) write to*)
(* a buffer of the current view, which a layout shares with its page; the  *)
(* others return their text.                                               *)
(*                                                                         *)
(* A template is a sequence of items: "text"; "pause", which is Fiber.yield*)
(* with no value; "sleep", which is Controller#sleep; "yield", which a     *)
(* layout uses to run what it surrounds; "partial".  A text is named by its*)
(* template's level and its place.  Level 0 is the partial, 1 the page,    *)
(* then the layouts from the innermost.  Left out are the search for       *)
(* templates, precompilation, escaping and locals.                         *)
(* Definitions marked "bug" are not part of the model.                     *)
(***************************************************************************)
EXTENDS Naturals, Sequences, SequencesExt

CONSTANTS Documents,   \* what is rendered: a page, its layouts, its partial
          MaxPartials  \* bound: partials the action renders between resumes

Items == {"text", "pause", "sleep", "yield", "partial"}
Template == [items : Seq(Items), friendly : BOOLEAN]

ASSUME DocumentsAssumption ==
  \A d \in Documents :
    /\ d.page \in Template
    /\ d.layouts \in Seq(Template)
    /\ \A i \in DOMAIN d.page.items : d.page.items[i] # "yield"
    /\ d.partial \in Template
    /\ \A i \in DOMAIN d.partial.items : d.partial.items[i] \in {"text", "pause", "sleep"}
ASSUME MaxPartialsAssumption == MaxPartials \in Nat

VARIABLES
  doc,       \* the page with its layouts
  phase,     \* new, action, resume, end, render; refused, failed, cut, closed
  fiber,     \* the stream's @fiber: new, live or ended
  frames,    \* running templates, the innermost last
  bufs,      \* contents of the buffers; the first is the stream's own @out
  cur,       \* the buffer that @_nyara_view.out is
  sent,      \* what was sent in chunks
  rest,      \* @rest_result, or what render returns
  partials,  \* partials the action rendered
  watch      \* what the event loop does about the request: registered in
             \* epoll, asleep, or woken and not registered yet

vars == <<doc, phase, fiber, frames, bufs, cur, sent, rest, partials, watch>>

Top == Len(doc.layouts) + 1
At(level) == CASE level = 0 -> doc.partial
               [] level = 1 -> doc.page
               [] OTHER -> doc.layouts[level - 1]
Frame == [level : Nat, next : Nat \ {0}, out : Nat \ {0}, back : Nat]

Text == Nat \X Nat
Buffered(stack, buffers) ==
  \A i \in DOMAIN stack : /\ stack[i].out \in 1..Len(buffers)
                          /\ stack[i].back \in 0..Len(buffers)
TypeOK ==
  /\ doc \in Documents
  /\ phase \in {"new", "action", "resume", "end", "render",
               "refused", "failed", "cut", "closed"}
  /\ fiber \in {"new", "live", "ended"}
  /\ frames \in Seq(Frame)
  /\ bufs \in Seq(Seq(Text)) /\ cur \in DOMAIN bufs
  /\ Buffered(frames, bufs)
  /\ sent \in Seq(Text) /\ rest \in Seq(Text)
  /\ partials \in 0..MaxPartials
  /\ watch \in {"registered", "asleep", "woken"}

Init ==
  /\ doc \in Documents
  /\ phase = "new" /\ fiber = "new"
  /\ frames = <<>> /\ bufs = << <<>> >> /\ cur = 1
  /\ sent = <<>> /\ rest = <<>> /\ partials = 0
  /\ watch = "registered"

-----------------------------------------------------------------------------
(* The view and its fiber                                                  *)

(* A template that starts takes the current buffer; one of another engine  *)
(* collects its text by itself.  back is the buffer the view has again when*)
(* a partial ends, 0 for other templates.                                  *)
Enter(level, stack, buffers, current, back) ==
  /\ bufs' = IF At(level).friendly THEN buffers ELSE Append(buffers, <<>>)
  /\ frames' = Append(stack, [level |-> level, next |-> 1, back |-> back,
                 out |-> IF At(level).friendly THEN current ELSE Len(buffers) + 1])

Begin ==
  IF fiber = "new"
  THEN fiber' = "live" /\ Enter(Top, frames, bufs, cur, 0)
  ELSE UNCHANGED <<fiber, frames, bufs>>

(* What the action does before each of these steps may end in a sleep or in*)
(* anything else that the loop waits for.                                  *)
ActionRan == watch' \in {"registered", "woken"}

(* View.new refuses a layout that is not stream friendly.                  *)
AllowAll == TRUE                                    \* bug: every layout allowed
Allowed == \A i \in DOMAIN doc.layouts : doc.layouts[i].friendly

New ==
  /\ phase = "new"
  /\ IF Allowed THEN phase' \in {"action", "render"} ELSE phase' = "refused"
  /\ IF phase' = "render" THEN Begin ELSE UNCHANGED <<fiber, frames, bufs>>
  /\ ActionRan
  /\ UNCHANGED <<doc, cur, sent, rest, partials>>

(* View#resume: a fiber that has ended raises FiberError.                  *)
Resume ==
  /\ phase = "action"
  /\ phase' = IF fiber = "ended" THEN "failed" ELSE "resume"
  /\ Begin /\ ActionRan
  /\ UNCHANGED <<doc, cur, sent, rest, partials>>

(* View#end: resumes as long as the fiber is alive.                        *)
End ==
  /\ phase = "action"
  /\ phase' = "end"
  /\ Begin /\ ActionRan
  /\ UNCHANGED <<doc, cur, sent, rest, partials>>

(* The action renders a partial between two resumes: View.new makes the new*)
(* view the instance's current one, for good.  The partial runs in the     *)
(* action's own fiber, where a pause ends the action (see Pause) and a     *)
(* sleep may raise (see Sleep).                                            *)
PartialInAction ==
  /\ phase = "action" /\ partials < MaxPartials
  /\ partials' = partials + 1
  /\ bufs' = Append(bufs, <<>>)
  /\ cur' = Len(bufs) + 1
  /\ \/ ~Contains(doc.partial.items, "pause") /\ UNCHANGED phase
     \/ Contains(doc.partial.items, "pause") /\ phase' = "cut"
     \/ Contains(doc.partial.items, "sleep") /\ phase' = "failed"
  /\ ActionRan
  /\ UNCHANGED <<doc, fiber, frames, sent, rest>>

-----------------------------------------------------------------------------
(* The running template                                                    *)

Running == /\ phase \in {"resume", "end", "render"} /\ frames # <<>>
           /\ watch # "asleep"
Frm == Last(frames)
Item(i) == Running /\ Frm.next <= Len(At(Frm.level).items)
                   /\ At(Frm.level).items[Frm.next] = i
Advanced == [frames EXCEPT ![Len(frames)].next = @ + 1]

Write ==
  /\ Item("text")
  /\ bufs' = [bufs EXCEPT ![Frm.out] = Append(@, <<Frm.level, Frm.next>>)]
  /\ frames' = Advanced
  /\ UNCHANGED <<doc, phase, fiber, cur, sent, rest, partials, watch>>

(* Buffer#flush of the stream's own buffer.                                *)
FlushKeeping == sent' = sent \o bufs[1] /\ UNCHANGED bufs  \* bug: not cleared
FlushDropping == bufs' = [bufs EXCEPT ![1] = <<>>] /\ UNCHANGED sent  \* bug: not sent
Flush == sent' = sent \o bufs[1] /\ bufs' = [bufs EXCEPT ![1] = <<>>]

(* A chunk that does not fit into the socket makes the action wait, so that*)
(* the loop registers the request again.                                   *)
Sends == IF bufs[1] = <<>> THEN UNCHANGED watch ELSE watch' \in {watch, "registered"}

BackToAction == phase' = "action"                   \* bug: end resumes once
AfterPause == phase' = IF phase = "end" THEN "end" ELSE "action"

(* The fiber of the stream yields: View#resume flushes and returns, and    *)
(* View#end resumes again.                                                 *)
ResumeEnds == AfterPause /\ Flush /\ Sends

(* Fiber.yield in a template.  In a stream it yields to View#resume.  A    *)
(* page that is rendered at once has no fiber but the action's: the loop   *)
(* takes the nil for the end of the action and closes the connection.      *)
Pause ==
  /\ Item("pause")
  /\ frames' = Advanced
  /\ \/ phase # "render" /\ ResumeEnds
     \/ phase = "render" /\ phase' = "cut" /\ UNCHANGED <<sent, bufs, watch>>
  /\ UNCHANGED <<doc, fiber, cur, rest, partials>>

(* Controller#sleep yields :sleep, which View#resume passes on to the loop.*)
(* It raises if the request is not registered in epoll, that is, when the  *)
(* loop has just woken it (EventLoop's Sleep).                             *)
Sleep ==
  /\ Item("sleep")
  /\ frames' = Advanced
  /\ IF watch = "registered"
     THEN watch' = "asleep" /\ UNCHANGED phase
     ELSE phase' = "failed" /\ UNCHANGED watch
  /\ UNCHANGED <<doc, fiber, bufs, cur, sent, rest, partials>>

(* The loop wakes it.  A page goes on; in a stream View#resume goes on     *)
(* after its Fiber.yield, as after a pause.                                *)
Wake ==
  /\ watch = "asleep"
  /\ \/ /\ phase # "render" /\ AfterPause /\ Flush
        /\ watch' \in IF bufs[1] = <<>> THEN {"woken"} ELSE {"woken", "registered"}
     \/ phase = "render" /\ watch' = "woken" /\ UNCHANGED <<phase, sent, bufs>>
  /\ UNCHANGED <<doc, fiber, frames, cur, rest, partials>>

(* A layout runs the template it surrounds.                                *)
Yield ==
  /\ Item("yield")
  /\ Enter(Frm.level - 1, Advanced, bufs, cur, 0)
  /\ UNCHANGED <<doc, phase, fiber, cur, sent, rest, partials, watch>>

(* Controller#partial: a new view with a buffer, and one on top of it that *)
(* the partial writes to.                                                  *)
Levels == << <<>>, <<>> >>

RunPartial ==
  /\ Item("partial")
  /\ LET root == Len(bufs) + 1
     IN /\ Enter(0, Advanced, bufs \o Levels, root + 1, root)
        /\ cur' = root + 1
  /\ UNCHANGED <<doc, phase, fiber, sent, rest, partials, watch>>

(* A template ends with join, which takes all that is in its buffer, its   *)
(* layout's beginning included; the layout appends what it is given.       *)
JoinKeeps(b) == bufs                                \* bug: buffer not cleared
Join(b) == [bufs EXCEPT ![b] = <<>>]

(* The outermost template has ended: its text is the rest of the document. *)
Return ==
  /\ Running /\ Frm.next > Len(At(Frm.level).items)
  /\ LET text == bufs[Frm.out]
     IN IF Len(frames) > 1
        THEN /\ bufs' = [Join(Frm.out) EXCEPT ![frames[Len(frames) - 1].out] = @ \o text]
             /\ UNCHANGED <<phase, fiber, rest>>
        ELSE /\ bufs' = Join(Frm.out)
             /\ rest' = text /\ fiber' = "ended"
             /\ phase' = IF phase = "resume" THEN "action" ELSE phase
  /\ frames' = Front(frames)
  /\ cur' = IF Frm.back = 0 THEN cur ELSE Frm.back
  /\ UNCHANGED <<doc, sent, partials, watch>>

(* render and end send what the template returned, and close.              *)
Close ==
  /\ phase \in {"end", "render"} /\ fiber = "ended"
  /\ sent' = sent \o rest
  /\ phase' = "closed"
  /\ UNCHANGED <<doc, fiber, frames, bufs, cur, rest, partials, watch>>

Over == phase \in {"refused", "failed", "cut", "closed"} /\ UNCHANGED vars

Next == \/ New \/ Resume \/ End \/ PartialInAction
        \/ Write \/ Pause \/ Sleep \/ Wake \/ Yield \/ RunPartial \/ Return
        \/ Close \/ Over

Spec == Init /\ [][Next]_vars

(* The template's code runs when its fiber does, and the action goes on.   *)
(* Not so Wake: the loop may lose a wake up.                               *)
FairSpec == Spec /\ WF_vars(\/ Write \/ Pause \/ Sleep \/ Yield \/ RunPartial \/ Return
                           \/ Close)

-----------------------------------------------------------------------------
(* Properties                                                              *)

(* The document: what each template writes, in order, with what it yields  *)
(* to and its partials in their places.                                    *)
Contents[level \in 0..Top] ==
  FlattenSeq([i \in DOMAIN At(level).items |->
    CASE At(level).items[i] = "yield" -> Contents[level - 1]
      [] At(level).items[i] = "partial" -> Contents[0]
      [] At(level).items[i] = "text" -> << <<level, i>> >>
      [] At(level).items[i] \in {"pause", "sleep"} -> <<>>])
Content == Contents[Top]

(* Text leaves in the order of the document and none twice, however the    *)
(* buffers are shared, joined and flushed, wherever templates pause, and   *)
(* also when a partial has changed the current view.                       *)
InOrder == IsPrefix(sent, Content)

(* A document that was ended or rendered is sent as a whole: the stream's  *)
(* parts and its rest are together what render would have sent.            *)
Whole == phase = "closed" => sent = Content

(* A template's text before its item n.                                    *)
Before(level, n) ==
  FlattenSeq([i \in 1..(n - 1) |->
    CASE At(level).items[i] = "yield" -> Contents[level - 1]
      [] At(level).items[i] = "partial" -> Contents[0]
      [] At(level).items[i] = "text" -> << <<level, i>> >>
      [] At(level).items[i] \in {"pause", "sleep"} -> <<>>])

(* What the running templates have written so far to the stream's own      *)
(* buffer, from the outermost inwards; each but the innermost has called   *)
(* the next one at the item before.                                        *)
Shown ==
  FlattenSeq([k \in DOMAIN frames |->
    LET f == frames[k]
    IN IF f.out # 1 THEN <<>>
       ELSE Before(f.level, IF k = Len(frames) THEN f.next ELSE f.next - 1)])

(* When a stream is back in its action, all that its templates have written*)
(* to the stream's own buffer has been sent, and nothing else.  What is not*)
(* sent yet is the text of a partial or of another engine, which the       *)
(* template around it is given at their end, and of templates that started *)
(* after a partial, in its buffer: a pause does not flush these.           *)
PauseSendsAll == phase = "action" /\ fiber = "live" => sent = Shown

(* Rendering and ending a stream get to the closing of the response,       *)
(* however often the template pauses on the way, unless a page that is     *)
(* rendered at once pauses, a second sleep raises, or a sleeping one is    *)
(* never woken.                                                            *)
EndCloses ==
  phase \in {"end", "render"} ~>
    \/ phase \in {"closed", "cut", "failed"}
    \/ [](watch = "asleep")
=============================================================================
