----------------------------- MODULE ViewProofs -----------------------------
(* Type correctness of View: in particular every running template has a    *)
(* buffer that exists; that all templates' text is sent in the order of the*)
(* document, and as a whole; and what of it a pause sends.  The document is*)
(* a recursive function: that it is one, and what begins it, is shown by   *)
(* the least counterexample.                                               *)
EXTENDS View, SequenceTheorems, FiniteSetTheorems, TLAPS

(* More buffers do no harm to the templates that have theirs.              *)
LEMMA BufferedGrows ==
  ASSUME NEW stack, NEW b \in Seq(Seq(Text)), NEW c \in Seq(Seq(Text)),
         Buffered(stack, b), Len(b) <= Len(c)
  PROVE  Buffered(stack, c)
<1> Len(b) \in Nat /\ Len(c) \in Nat
  OBVIOUS
<1> QED BY DEF Buffered

(* The running template, and the stack without it.                         *)
LEMMA TopFrame ==
  ASSUME TypeOK, frames # <<>>
  PROVE  /\ Frm \in Frame /\ Frm = frames[Len(frames)]
         /\ Len(frames) \in Nat \ {0}
         /\ Frm.out \in DOMAIN bufs /\ Frm.back \in 0..Len(bufs)
         /\ Front(frames) \in Seq(Frame) /\ Len(Front(frames)) = Len(frames) - 1
         /\ \A i \in DOMAIN Front(frames) : i \in DOMAIN frames /\ Front(frames)[i] = frames[i]
<1>1. Len(frames) \in Nat \ {0} /\ frames[Len(frames)] \in Frame /\ Len(frames) \in DOMAIN frames
  BY EmptySeq DEF TypeOK
<1>2. Frm = frames[Len(frames)]
  BY DEF Frm, Last
<1>3. \A i \in 1..(Len(frames) - 1) : frames[i] \in Frame /\ i \in DOMAIN frames
  BY DEF TypeOK
<1>4. /\ Front(frames) \in Seq(Frame) /\ Len(Front(frames)) = Len(frames) - 1
      /\ \A i \in 1..(Len(frames) - 1) : Front(frames)[i] = frames[i]
  <2>1. Len(frames) - 1 \in Nat /\ 1 \in Int /\ Front(frames) = SubSeq(frames, 1, Len(frames) - 1)
    BY <1>1 DEF Front
  <2> DEFINE m == Len(frames) - 1
  <2>2. m \in Nat /\ \A i \in 1..m : frames[i] \in Frame
    BY <2>1, <1>3
  <2> HIDE DEF m
  <2>3. /\ SubSeq(frames, 1, m) \in Seq(Frame)
        /\ Len(SubSeq(frames, 1, m)) = IF 1 <= m THEN m - 1 + 1 ELSE 0
        /\ \A i \in 1..(m - 1 + 1) : SubSeq(frames, 1, m)[i] = frames[1 + i - 1]
    BY <2>2, SubSeqProperties
  <2>4. /\ SubSeq(frames, 1, m) \in Seq(Frame)
        /\ Len(SubSeq(frames, 1, m)) = m
        /\ \A i \in 1..m : SubSeq(frames, 1, m)[i] = frames[i]
    BY <2>2, <2>3
  <2> QED BY <2>1, <2>4 DEF m
<1>5. \A i \in DOMAIN Front(frames) : i \in DOMAIN frames /\ Front(frames)[i] = frames[i]
  BY <1>3, <1>4
<1>6. Frm.out \in DOMAIN bufs /\ Frm.back \in 0..Len(bufs)
  BY <1>1, <1>2 DEF TypeOK, Buffered
<1> QED BY <1>1, <1>2, <1>4, <1>5, <1>6

(* Replacing one buffer.                                                   *)
LEMMA PutBuffer ==
  ASSUME NEW buffers \in Seq(Seq(Text)), NEW b \in DOMAIN buffers, NEW text \in Seq(Text)
  PROVE  /\ [buffers EXCEPT ![b] = text] \in Seq(Seq(Text))
         /\ DOMAIN [buffers EXCEPT ![b] = text] = DOMAIN buffers
<1>1. b \in 1..Len(buffers)
  OBVIOUS
<1> QED BY <1>1, ExceptSeq

(* A template that goes on keeps its buffer.                               *)
LEMMA AdvancedType ==
  ASSUME TypeOK, frames # <<>>
  PROVE  /\ Advanced \in Seq(Frame)
         /\ Len(Advanced) = Len(frames)
         /\ \A i \in DOMAIN Advanced : i \in DOMAIN frames /\ Advanced[i].out = frames[i].out
                                    /\ Advanced[i].back = frames[i].back
<1> DEFINE n == Len(frames)
<1>1. n \in Nat \ {0} /\ frames[n] \in Frame /\ n \in DOMAIN frames
  BY TopFrame
<1>2. [frames[n] EXCEPT !.next = @ + 1] \in Frame
  BY <1>1 DEF Frame
<1>3. Advanced = [frames EXCEPT ![n] = [frames[n] EXCEPT !.next = @ + 1]]
  BY DEF Advanced
<1> DEFINE top == [frames[n] EXCEPT !.next = @ + 1]
<1>4. top \in Frame /\ top.out = frames[n].out /\ top.back = frames[n].back
  BY <1>1, <1>2 DEF Frame
<1>5. Advanced = [frames EXCEPT ![n] = top]
  BY <1>3
<1>6. frames \in Seq(Frame) /\ n \in 1..Len(frames)
  BY <1>1 DEF TypeOK
<1> HIDE DEF top, n
<1>7. /\ Advanced \in Seq(Frame) /\ Len(Advanced) = Len(frames)
      /\ \A i \in 1..Len(frames) : Advanced[i] = IF i = n THEN top ELSE frames[i]
  BY <1>4, <1>5, <1>6, ExceptSeq
<1>8. \A i \in 1..Len(frames) : Advanced[i].out = frames[i].out /\ Advanced[i].back = frames[i].back
  BY <1>4, <1>7
<1> QED BY <1>6, <1>7, <1>8

(* And so it has one after a step that makes or drops none.                *)
LEMMA AdvancedBuffered ==
  ASSUME TypeOK, frames # <<>>, frames' = Advanced,
         bufs' \in Seq(Seq(Text)), DOMAIN bufs' = DOMAIN bufs
  PROVE  frames' \in Seq(Frame) /\ Buffered(frames', bufs')
<1>1. Len(bufs') = Len(bufs)
  BY DEF TypeOK
<1> QED BY <1>1, AdvancedType DEF TypeOK, Buffered

(* A template entered on a good stack has a buffer.                        *)
LEMMA EnterType ==
  ASSUME NEW level \in Nat, NEW stack \in Seq(Frame), NEW buffers \in Seq(Seq(Text)),
         NEW current \in DOMAIN buffers, NEW back \in 0..Len(buffers),
         Buffered(stack, buffers),
         Enter(level, stack, buffers, current, back)
  PROVE  /\ frames' \in Seq(Frame) /\ bufs' \in Seq(Seq(Text))
         /\ Buffered(frames', bufs')
         /\ Len(bufs') >= Len(buffers)
<1> DEFINE out == IF At(level).friendly THEN current ELSE Len(buffers) + 1
           new == [level |-> level, next |-> 1, back |-> back, out |-> out]
<1>1. bufs' \in Seq(Seq(Text)) /\ Len(bufs') >= Len(buffers) /\ out \in DOMAIN bufs'
  <2>1. CASE At(level).friendly
    BY <2>1 DEF Enter
  <2>2. CASE ~At(level).friendly
    <3>1. bufs' = Append(buffers, <<>>) /\ <<>> \in Seq(Text)
      BY <2>2 DEF Enter
    <3> QED BY <2>2, <3>1
  <2> QED BY <2>1, <2>2
<1>2. new \in Frame /\ frames' = Append(stack, new)
  BY <1>1 DEF Frame, Enter
<1>3. Buffered(stack, bufs')
  BY <1>1, BufferedGrows
<1> HIDE DEF new
<1>4. /\ frames' \in Seq(Frame) /\ DOMAIN frames' = 1..(Len(stack) + 1)
      /\ \A i \in DOMAIN stack : frames'[i] = stack[i]
      /\ frames'[Len(stack) + 1] = new
  BY <1>2
<1>5. new.out \in 1..Len(bufs') /\ new.back \in 0..Len(bufs')
  <2>1. Len(bufs') \in Nat /\ Len(buffers) \in Nat /\ out \in 1..Len(bufs')
    BY <1>1, SMTT(30)
  <2> QED BY <1>1, <2>1 DEF new
<1>6. Buffered(frames', bufs')
  <2> SUFFICES ASSUME NEW i \in DOMAIN frames'
               PROVE  /\ frames'[i].out \in 1..Len(bufs')
                      /\ frames'[i].back \in 0..Len(bufs')
    BY DEF Buffered
  <2>1. CASE i \in DOMAIN stack
    BY <1>3, <1>4, <2>1 DEF Buffered
  <2>2. CASE i = Len(stack) + 1
    BY <1>4, <1>5, <2>2
  <2> QED BY <1>4, <2>1, <2>2
<1> QED BY <1>1, <1>4, <1>6

(* A fiber that is resumed for the first time enters the outer layout.     *)
LEMMA BeginType ==
  ASSUME TypeOK, Begin
  PROVE  /\ frames' \in Seq(Frame) /\ bufs' \in Seq(Seq(Text)) /\ cur \in DOMAIN bufs'
         /\ fiber' \in {"new", "live", "ended"}
         /\ Buffered(frames', bufs')
<1>1. Top \in Nat
  BY DocumentsAssumption DEF DocumentsAssumption, TypeOK, Top
<1>2. CASE fiber = "new"
  <2>1. Enter(Top, frames, bufs, cur, 0) /\ fiber' = "live"
    BY <1>2 DEF Begin
  <2>2. 0 \in 0..Len(bufs) /\ bufs \in Seq(Seq(Text)) /\ frames \in Seq(Frame)
        /\ cur \in DOMAIN bufs /\ Buffered(frames, bufs)
    BY DEF TypeOK
  <2>3. /\ frames' \in Seq(Frame) /\ bufs' \in Seq(Seq(Text))
        /\ Buffered(frames', bufs') /\ Len(bufs') >= Len(bufs)
    BY <1>1, <2>1, <2>2, EnterType
  <2> QED BY <2>1, <2>2, <2>3
<1>3. CASE fiber # "new"
  BY <1>3 DEF Begin, TypeOK, Buffered
<1> QED BY <1>2, <1>3

(* Only a layout yields, so there is a template below it.                  *)
LEMMA YieldingLevel ==
  ASSUME TypeOK, Item("yield")
  PROVE  Frm.level - 1 \in Nat
<1>1. Frm \in Frame
  BY TopFrame DEF Item, Running
<1>2. Frm.level \in Nat /\ Frm.next \in Nat \ {0}
  BY <1>1 DEF Frame
<1>3. At(Frm.level).items[Frm.next] = "yield" /\ Frm.next <= Len(At(Frm.level).items)
  BY DEF Item
<1>4. Frm.level # 0
  <2> SUFFICES ASSUME Frm.level = 0 PROVE FALSE
    OBVIOUS
  <2>1. At(Frm.level) = doc.partial
    BY DEF At
  <2>2. /\ doc.partial.items \in Seq(Items)
        /\ \A i \in DOMAIN doc.partial.items : doc.partial.items[i] # "yield"
    BY DocumentsAssumption DEF DocumentsAssumption, Template, TypeOK
  <2>3. Frm.next \in DOMAIN doc.partial.items
    BY <1>2, <1>3, <2>1, <2>2
  <2> QED BY <1>3, <2>1, <2>2, <2>3
<1> QED BY <1>2, <1>4

(* A flush drops no buffer.                                                *)
LEMMA FlushType ==
  ASSUME TypeOK, Flush
  PROVE  bufs' \in Seq(Seq(Text)) /\ DOMAIN bufs' = DOMAIN bufs /\ sent' \in Seq(Text)
<1>1. /\ 1 \in DOMAIN bufs /\ bufs[1] \in Seq(Text) /\ <<>> \in Seq(Text)
      /\ bufs \in Seq(Seq(Text)) /\ sent \in Seq(Text)
  BY DEF TypeOK
<1>2. bufs' = [bufs EXCEPT ![1] = <<>>] /\ sent' = sent \o bufs[1]
  BY DEF Flush
<1>3. sent \o bufs[1] \in Seq(Text)
  BY <1>1, ConcatProperties
<1> QED BY <1>1, <1>2, <1>3, PutBuffer

(* TypeOK is inductive: the initial states, and each action.               *)
LEMMA ViewInitType == Init => TypeOK
BY MaxPartialsAssumption DEF Init, TypeOK, Buffered, MaxPartialsAssumption

(* One step per action; the stack and the buffers are what it is about.    *)
LEMMA ViewStepType == TypeOK /\ [Next]_vars => TypeOK'
<1> SUFFICES ASSUME TypeOK, [Next]_vars PROVE TypeOK'
  OBVIOUS
<1>1. CASE New
  <2>1. CASE phase' = "render"
    BY <1>1, <2>1, BeginType DEF New, ActionRan, TypeOK, Buffered
  <2>2. CASE phase' # "render"
    BY <1>1, <2>2 DEF New, ActionRan, TypeOK
  <2> QED BY <2>1, <2>2
<1>2. CASE Resume
  BY <1>2, BeginType DEF Resume, ActionRan, TypeOK, Buffered
<1>3. CASE End
  BY <1>3, BeginType DEF End, ActionRan, TypeOK, Buffered
<1>4. CASE PartialInAction
  <2>1. bufs' = Append(bufs, <<>>) /\ <<>> \in Seq(Text) /\ bufs \in Seq(Seq(Text))
    BY <1>4 DEF PartialInAction, TypeOK
  <2>2. bufs' \in Seq(Seq(Text)) /\ Len(bufs') = Len(bufs) + 1
    BY <2>1
  <2>3. Buffered(frames', bufs')
    <3>1. Buffered(frames, bufs')
      <4>1. Buffered(frames, bufs) /\ Len(bufs) <= Len(bufs')
        BY <2>1, <2>2 DEF TypeOK
      <4> QED BY <2>1, <2>2, <4>1, BufferedGrows
    <3> QED BY <1>4, <3>1 DEF PartialInAction
  <2> QED BY <1>4, <2>2, <2>3, MaxPartialsAssumption
          DEF PartialInAction, ActionRan, TypeOK, MaxPartialsAssumption
<1>5. CASE Write
  <2>1. frames # <<>> /\ frames' = Advanced
    BY <1>5 DEF Write, Item, Running
  <2>2. <<Frm.level, Frm.next>> \in Text
    BY <2>1, TopFrame DEF Frame, Text
  <2>3. bufs[Frm.out] \in Seq(Text)
    BY <2>1, TopFrame DEF TypeOK
  <2>4. bufs' = [bufs EXCEPT ![Frm.out] = Append(bufs[Frm.out], <<Frm.level, Frm.next>>)]
    BY <1>5 DEF Write
  <2>5. Append(bufs[Frm.out], <<Frm.level, Frm.next>>) \in Seq(Text) /\ Frm.out \in DOMAIN bufs
    BY <2>1, <2>2, <2>3, TopFrame, AppendProperties
  <2>6. bufs' \in Seq(Seq(Text)) /\ DOMAIN bufs' = DOMAIN bufs
    BY <2>4, <2>5, PutBuffer DEF TypeOK
  <2>7. frames' \in Seq(Frame) /\ Buffered(frames', bufs')
    BY <2>1, <2>6, AdvancedBuffered
  <2> QED BY <1>5, <2>6, <2>7 DEF Write, TypeOK
<1>6. CASE Pause
  <2>1. frames # <<>> /\ frames' = Advanced
    BY <1>6 DEF Pause, Item, Running
  <2>2. /\ bufs' \in Seq(Seq(Text)) /\ DOMAIN bufs' = DOMAIN bufs /\ sent' \in Seq(Text)
        /\ phase' \in {"action", "end", "cut"} /\ watch' \in {"registered", "asleep", "woken"}
    <3>1. CASE phase = "render"
      BY <1>6, <3>1 DEF Pause, TypeOK
    <3>2. CASE phase # "render"
      BY <1>6, <3>2, FlushType DEF Pause, ResumeEnds, AfterPause, Sends, TypeOK
    <3> QED BY <3>1, <3>2
  <2>3. frames' \in Seq(Frame) /\ Buffered(frames', bufs')
    BY <2>1, <2>2, AdvancedBuffered
  <2> QED BY <1>6, <2>2, <2>3 DEF Pause, TypeOK
<1>7. CASE Yield
  <2>1. frames # <<>> /\ Frm.level - 1 \in Nat
    BY <1>7, YieldingLevel DEF Yield, Item, Running
  <2>2. Enter(Frm.level - 1, Advanced, bufs, cur, 0)
    BY <1>7 DEF Yield
  <2>3. Buffered(Advanced, bufs)
    BY <2>1, AdvancedType DEF TypeOK, Buffered
  <2>4. /\ frames' \in Seq(Frame) /\ bufs' \in Seq(Seq(Text))
        /\ Buffered(frames', bufs')
        /\ Len(bufs') >= Len(bufs)
    BY <2>1, <2>2, <2>3, AdvancedType, EnterType DEF TypeOK
  <2> QED BY <1>7, <2>4 DEF Yield, TypeOK, Buffered
<1>8. CASE RunPartial
  <2> DEFINE root == Len(bufs) + 1
             more == bufs \o Levels
  <2>1. frames # <<>> /\ Enter(0, Advanced, more, root + 1, root) /\ cur' = root + 1
    BY <1>8 DEF RunPartial, Item, Running
  <2>2. Levels \in Seq(Seq(Text)) /\ Len(Levels) = 2
    BY DEF Levels
  <2>3. more \in Seq(Seq(Text)) /\ Len(more) = Len(bufs) + 2
    <3>1. bufs \in Seq(Seq(Text)) /\ Levels \in Seq(Seq(Text))
      BY <2>2 DEF TypeOK
    <3>2. bufs \o Levels \in Seq(Seq(Text)) /\ Len(bufs \o Levels) = Len(bufs) + Len(Levels)
      BY <3>1, ConcatProperties
    <3> QED BY <2>2, <3>2
  <2>4. Buffered(Advanced, more)
    <3>1. Buffered(Advanced, bufs)
      BY <2>1, AdvancedType DEF TypeOK, Buffered
    <3>2. Len(bufs) <= Len(more) /\ bufs \in Seq(Seq(Text))
      BY <2>3 DEF TypeOK
    <3> HIDE DEF more
    <3> QED BY <2>3, <3>1, <3>2, BufferedGrows
  <2>5. root + 1 \in DOMAIN more /\ root \in 0..Len(more)
    BY <2>3 DEF TypeOK
  <2> HIDE DEF root, more
  <2>6. /\ frames' \in Seq(Frame) /\ bufs' \in Seq(Seq(Text))
        /\ Buffered(frames', bufs')
        /\ Len(bufs') >= Len(more)
    BY <2>1, <2>3, <2>4, <2>5, AdvancedType, EnterType
  <2>7. cur' \in DOMAIN bufs'
    BY <2>1, <2>3, <2>5, <2>6
  <2> QED BY <1>8, <2>6, <2>7 DEF RunPartial, TypeOK, Buffered
<1>9. CASE Return
  <2>1. frames # <<>>
    BY <1>9 DEF Return, Running
  <2>2. bufs[Frm.out] \in Seq(Text) /\ Frm.out \in DOMAIN bufs
    BY <2>1, TopFrame DEF TypeOK
  <2>3. /\ bufs' \in Seq(Seq(Text)) /\ DOMAIN bufs' = DOMAIN bufs
        /\ rest' \in Seq(Text) /\ fiber' \in {"new", "live", "ended"}
        /\ phase' \in {"action", phase}
    <3>1. Join(Frm.out) \in Seq(Seq(Text)) /\ DOMAIN Join(Frm.out) = DOMAIN bufs
      <4>1. <<>> \in Seq(Text) /\ bufs \in Seq(Seq(Text))
        BY DEF TypeOK
      <4> QED BY <2>2, <4>1, PutBuffer DEF Join
    <3>2. CASE Len(frames) > 1
      <4> DEFINE b == frames[Len(frames) - 1].out
      <4>1. b \in DOMAIN bufs
        <5>1. Len(frames) - 1 \in DOMAIN frames
          BY <2>1, <3>2, TopFrame DEF TypeOK
        <5> QED BY <5>1 DEF TypeOK, Buffered
      <4>2. Join(Frm.out)[b] \in Seq(Text)
        BY <3>1, <4>1
      <4>3. Join(Frm.out)[b] \o bufs[Frm.out] \in Seq(Text)
        BY <2>2, <4>2, ConcatProperties
      <4>4. bufs' = [Join(Frm.out) EXCEPT ![b] = Join(Frm.out)[b] \o bufs[Frm.out]]
        BY <1>9, <3>2 DEF Return
      <4> HIDE DEF b
      <4>5. bufs' \in Seq(Seq(Text)) /\ DOMAIN bufs' = DOMAIN bufs
        BY <3>1, <4>1, <4>3, <4>4, PutBuffer
      <4> QED BY <1>9, <3>2, <4>5 DEF Return, TypeOK
    <3>3. CASE ~(Len(frames) > 1)
      BY <1>9, <2>2, <3>1, <3>3 DEF Return, TypeOK
    <3> QED BY <3>2, <3>3
  <2>4. frames' \in Seq(Frame) /\ Buffered(frames', bufs')
    <3>1. frames' = Front(frames) /\ Len(bufs') = Len(bufs)
      BY <1>9, <2>3 DEF Return, TypeOK
    <3> QED BY <2>1, <2>3, <3>1, TopFrame DEF TypeOK, Buffered
  <2>5. cur' \in DOMAIN bufs'
    <3>1. cur' = IF Frm.back = 0 THEN cur ELSE Frm.back
      BY <1>9 DEF Return
    <3>2. Frm.back \in Nat /\ Frm.back <= Len(bufs) /\ DOMAIN bufs = 1..Len(bufs) /\ cur \in DOMAIN bufs
      BY <2>1, TopFrame DEF Frame, TypeOK
    <3> QED BY <2>3, <3>1, <3>2
  <2> QED BY <1>9, <2>3, <2>4, <2>5 DEF Return, TypeOK, Buffered
<1>10. CASE Close
  BY <1>10 DEF Close, TypeOK
<1>11. CASE Sleep
  <2>1. frames # <<>> /\ frames' = Advanced /\ bufs' = bufs
    BY <1>11 DEF Sleep, Item, Running
  <2>2. frames' \in Seq(Frame) /\ Buffered(frames', bufs')
    BY <2>1, AdvancedBuffered DEF TypeOK
  <2>3. phase' \in {phase, "failed"} /\ watch' \in {watch, "asleep"}
    BY <1>11 DEF Sleep
  <2> QED BY <1>11, <2>2, <2>3 DEF Sleep, TypeOK
<1>12. CASE Wake
  <2>1. /\ bufs' \in Seq(Seq(Text)) /\ DOMAIN bufs' = DOMAIN bufs /\ sent' \in Seq(Text)
        /\ phase' \in {"action", "end", "render"} /\ watch' \in {"registered", "woken"}
    <3>1. CASE phase = "render" /\ watch' = "woken" /\ UNCHANGED <<phase, sent, bufs>>
      BY <3>1 DEF TypeOK
    <3>2. CASE phase # "render" /\ AfterPause /\ Flush /\ watch' \in {"registered", "woken"}
      BY <3>2, FlushType DEF AfterPause
    <3> QED BY <1>12, <3>1, <3>2 DEF Wake
  <2>2. frames' = frames /\ frames \in Seq(Frame) /\ Buffered(frames, bufs)
    BY <1>12 DEF Wake, TypeOK
  <2>3. Len(bufs') = Len(bufs)
    BY <2>1 DEF TypeOK
  <2>4. Buffered(frames', bufs')
    BY <2>2, <2>3 DEF Buffered
  <2> QED BY <1>12, <2>1, <2>2, <2>4 DEF Wake, TypeOK
<1>13. CASE UNCHANGED vars
  BY <1>13 DEF vars, TypeOK
<1> QED BY <1>1, <1>2, <1>3, <1>4, <1>5, <1>6, <1>7, <1>8, <1>9, <1>10, <1>11, <1>12, <1>13
        DEF Next, Over

(* Type correctness; every running template has a buffer that exists.      *)
THEOREM ViewTypeCorrect == Spec => []TypeOK
BY ViewInitType, ViewStepType, PTL DEF Spec
-----------------------------------------------------------------------------
(* A non-empty set of natural numbers has a least element: the lower       *)
(* bounds of the set are 0, ..., c - 1, where c is how many there are.     *)
LEMMA LeastExists ==
  ASSUME NEW S \in SUBSET Nat, S # {}
  PROVE  \E m \in S : \A s \in S : m <= s
<1> PICK n \in S : TRUE
  OBVIOUS
<1> DEFINE L == {k \in 0..n : \A s \in S : k <= s}
           c == Cardinality(L)
<1>1. IsFiniteSet(0..n)
  BY FS_Interval
<1>2. IsFiniteSet(L) /\ c \in Nat
  <2>1. L \in SUBSET (0..n)
    OBVIOUS
  <2>2. IsFiniteSet(L)
    BY <1>1, <2>1, FS_Subset
  <2> QED BY <2>2, FS_CardinalityType
<1>3. \A k \in L : k < c
  <2> SUFFICES ASSUME NEW k \in L PROVE k < c
    OBVIOUS
  <2>1. (0..k) \in SUBSET L /\ k \in Nat
    OBVIOUS
  <2>2. Cardinality(0..k) = k + 1
    BY <2>1, FS_Interval
  <2>3. Cardinality(0..k) <= c
    BY <1>2, <2>1, FS_Subset
  <2> QED BY <1>2, <2>1, <2>2, <2>3
<1>4. \A k \in Nat : k \notin L => c <= k
  <2> SUFFICES ASSUME NEW k \in Nat, k \notin L PROVE c <= k
    OBVIOUS
  <2>1. L \in SUBSET (0..(k - 1))
    OBVIOUS
  <2>2. IsFiniteSet(0..(k - 1)) /\ Cardinality(0..(k - 1)) = k
    BY FS_Interval
  <2>3. c <= Cardinality(0..(k - 1))
    BY <2>1, <2>2, FS_Subset
  <2> QED BY <1>2, <2>2, <2>3
<1>5. c \notin L
  BY <1>2, <1>3
<1>6. 0 \in L
  OBVIOUS
<1>7. c - 1 \in L
  <2>1. c - 1 \in Nat
    BY <1>2, <1>3, <1>6
  <2> QED BY <1>2, <1>4, <2>1
<1>8. \E s \in S : s < c
  <2>1. CASE c <= n
    <3>1. \A k \in 0..n : k \notin L => \E s \in S : ~(k <= s)
      OBVIOUS
    <3>2. c \in 0..n
      BY <1>2, <2>1
    <3>3. \E s \in S : ~(c <= s)
      BY <1>5, <3>1, <3>2
    <3>4. c \in Nat
      BY <1>2
    <3> HIDE DEF L, c
    <3> QED BY <3>3, <3>4
  <2>2. CASE c > n
    BY <1>2, <2>2
  <2> QED BY <1>2, <2>1, <2>2
<1> HIDE DEF L, c
<1> PICK s \in S : s < c
  BY <1>8
<1>9. \A x \in S : c - 1 <= x
  BY <1>7 DEF L
<1>10. s = c - 1
  BY <1>2, <1>9
<1> QED BY <1>9, <1>10

(* What FlattenSeq computes, from the left.                                *)
LEMMA FlattenFacts ==
  ASSUME NEW S, NEW ss \in Seq(Seq(S))
  PROVE  \E g \in [0..Len(ss) -> Seq(S)] :
           /\ g[0] = <<>>
           /\ \A i \in 1..Len(ss) : g[i] = g[i - 1] \o ss[i]
           /\ g[Len(ss)] = FlattenSeq(ss)
<1> DEFINE n == Len(ss)
           Rec(f, m) == f = [i \in 1..m |-> IF i = 1 THEN ss[i] ELSE f[i - 1] \o ss[i]]
           Undefined == {m \in Nat : ~\E f : Rec(f, m)}
<1>1. n \in Nat /\ \A i \in 1..n : ss[i] \in Seq(S)
  OBVIOUS
<1>2. Undefined = {}
  <2> SUFFICES ASSUME Undefined # {} PROVE FALSE
    OBVIOUS
  <2>1. Undefined \in SUBSET Nat
    OBVIOUS
  <2>2. PICK m \in Undefined : \A k \in Undefined : m <= k
    BY <2>1, LeastExists
  <2>3. m \in Nat /\ ~\E f : Rec(f, m)
    OBVIOUS
  <2>0. \A k \in Nat : (\E f : Rec(f, k)) <=> k \notin Undefined
    OBVIOUS
  <2> HIDE DEF Undefined
  <2>4. CASE m = 0
    <3> DEFINE f == [i \in 1..0 |-> ss[i]]
    <3>1. Rec(f, 0)
      OBVIOUS
    <3> QED BY <2>3, <2>4, <3>1
  <2>5. CASE m # 0
    <3>1. m - 1 \in Nat /\ m - 1 \notin Undefined
      BY <2>2, <2>3, <2>5
    <3>2. PICK f : Rec(f, m - 1)
      BY <2>0, <3>1
    <3> DEFINE last == IF m = 1 THEN ss[m] ELSE f[m - 1] \o ss[m]
               h == [i \in 1..m |-> IF i = m THEN last ELSE f[i]]
    <3>3. \A i \in 1..(m - 1) : f[i] = IF i = 1 THEN ss[i] ELSE f[i - 1] \o ss[i]
      BY <3>2
    <3>4. \A i \in 1..(m - 1) : h[i] = f[i]
      BY <2>3
    <3>5. h[m] = last
      BY <2>3, <2>5
    <3>6. ASSUME NEW i \in 1..m
          PROVE  h[i] = IF i = 1 THEN ss[i] ELSE h[i - 1] \o ss[i]
      <4>1. CASE i = m /\ m = 1
        BY <3>5, <4>1
      <4>2. CASE i = m /\ m # 1
        <5>1. m - 1 \in 1..(m - 1)
          BY <2>3, <2>5, <4>2
        <5>2. h[m - 1] = f[m - 1]
          BY <3>4, <5>1
        <5> QED BY <3>5, <4>2, <5>2
      <4>3. CASE i # m
        <5>1. i \in 1..(m - 1) /\ (i # 1 => i - 1 \in 1..(m - 1))
          BY <2>3, <4>3
        <5>2. h[i] = f[i] /\ (i # 1 => h[i - 1] = f[i - 1])
          BY <3>4, <5>1
        <5> QED BY <3>3, <5>1, <5>2
      <4> QED BY <4>1, <4>2, <4>3
    <3>7. h = [i \in 1..m |-> h[i]]
      OBVIOUS
    <3> HIDE DEF h
    <3>8. Rec(h, m)
      BY <3>6, <3>7
    <3> QED BY <2>3, <3>8
  <2> QED BY <2>4, <2>5
<1>3. CASE n = 0
  <2>1. ss = <<>> /\ FlattenSeq(ss) = ss
    BY <1>3 DEF FlattenSeq
  <2> DEFINE g == [i \in 0..0 |-> <<>>]
  <2>2. g \in [0..n -> Seq(S)] /\ g[0] = <<>> /\ \A i \in 1..n : g[i] = g[i - 1] \o ss[i]
    BY <1>3
  <2> QED BY <1>3, <2>1, <2>2
<1>4. CASE n # 0
  <2> DEFINE flat == CHOOSE f : Rec(f, n)
  <2>1. Rec(flat, n)
    BY <1>1, <1>2
  <2>2. FlattenSeq(ss) = flat[n]
    BY <1>4 DEF FlattenSeq
  <2> HIDE DEF flat
  <2>3. \A i \in 1..n : flat[i] = IF i = 1 THEN ss[i] ELSE flat[i - 1] \o ss[i]
    BY <2>1
  <2> DEFINE Untyped == {i \in 1..n : flat[i] \notin Seq(S)}
  <2>4. Untyped = {}
    <3> SUFFICES ASSUME Untyped # {} PROVE FALSE
      OBVIOUS
    <3>1. Untyped \in SUBSET Nat
      BY <1>1
    <3>2. PICK i \in Untyped : \A k \in Untyped : i <= k
      BY <3>1, LeastExists
    <3>3. i \in 1..n /\ flat[i] \notin Seq(S)
      OBVIOUS
    <3>4. i # 1
      BY <1>1, <2>3, <3>3
    <3>5. i - 1 \in 1..n /\ i - 1 \notin Untyped
      BY <1>1, <3>2, <3>3, <3>4
    <3>6. flat[i - 1] \in Seq(S) /\ ss[i] \in Seq(S)
      BY <1>1, <3>3, <3>5
    <3>7. flat[i - 1] \o ss[i] \in Seq(S)
      BY <3>6, ConcatProperties
    <3> QED BY <2>3, <3>3, <3>4, <3>7
  <2> DEFINE g == [i \in 0..n |-> IF i = 0 THEN <<>> ELSE flat[i]]
  <2>5. \A i \in 1..n : flat[i] \in Seq(S)
    BY <2>4
  <2>6. g \in [0..n -> Seq(S)] /\ g[0] = <<>> /\ g[n] = FlattenSeq(ss)
    BY <1>1, <1>4, <2>2, <2>5
  <2>7. ASSUME NEW i \in 1..n PROVE g[i] = g[i - 1] \o ss[i]
    <3>1. CASE i = 1
      <4>1. g[i] = ss[1] /\ g[i - 1] = <<>> /\ ss[1] \in Seq(S)
        BY <1>1, <2>3, <3>1
      <4>2. <<>> \o ss[1] = ss[1]
        BY <4>1, ConcatEmptySeq
      <4> QED BY <3>1, <4>1, <4>2
    <3>2. CASE i # 1
      <4>1. i \in 0..n /\ i - 1 \in 0..n /\ i # 0 /\ i - 1 # 0
        BY <1>1, <3>2
      <4>2. g[i] = flat[i] /\ g[i - 1] = flat[i - 1]
        BY <4>1
      <4> QED BY <2>3, <3>2, <4>2
    <3> QED BY <3>1, <3>2
  <2> QED BY <2>6, <2>7
<1> QED BY <1>3, <1>4

-----------------------------------------------------------------------------
(* The content of a document, level by level and item by item              *)

Piece(level, i, contents) ==
  CASE At(level).items[i] = "yield" -> contents[level - 1]
    [] At(level).items[i] = "partial" -> contents[0]
    [] At(level).items[i] = "text" -> << <<level, i>> >>
    [] At(level).items[i] \in {"pause", "sleep"} -> <<>>
Pieces(level, contents) == [i \in DOMAIN At(level).items |-> Piece(level, i, contents)]

(* The templates of a document; a page and a partial do not yield.         *)
LEMMA Templates ==
  ASSUME doc \in Documents
  PROVE  /\ Top \in Nat \ {0}
         /\ \A l \in 0..Top : /\ At(l) \in Template /\ Len(At(l).items) \in Nat
                              /\ At(l).items \in Seq(Items)
                              /\ DOMAIN At(l).items = 1..Len(At(l).items)
         /\ \A l \in 0..Top : \A i \in 1..Len(At(l).items) :
              /\ At(l).items[i] \in Items
              /\ At(l).items[i] = "yield" => l >= 2
              /\ At(l).items[i] = "partial" => l >= 1
<1>1. /\ doc.page \in Template /\ doc.layouts \in Seq(Template)
      /\ \A i \in DOMAIN doc.page.items : doc.page.items[i] # "yield"
  BY DocumentsAssumption DEF DocumentsAssumption
<1>2. Top \in Nat \ {0} /\ Len(doc.layouts) = Top - 1 /\ DOMAIN doc.layouts = 1..(Top - 1)
  BY <1>1 DEF Top
<1>3. /\ doc.partial \in Template
      /\ \A i \in DOMAIN doc.partial.items : doc.partial.items[i] \in {"text", "pause", "sleep"}
  BY DocumentsAssumption DEF DocumentsAssumption
<1>4. ASSUME NEW l \in 0..Top PROVE At(l) \in Template
  <2>1. CASE l = 0
    BY <1>3, <2>1 DEF At
  <2>2. CASE l = 1
    BY <1>1, <2>2 DEF At
  <2>3. CASE l >= 2
    <3>1. l - 1 \in 1..(Top - 1)
      BY <1>2, <2>3
    <3>2. doc.layouts[l - 1] \in Template
      BY <1>1, <1>2, <3>1
    <3> QED BY <2>3, <3>2 DEF At
  <2> QED BY <1>2, <2>1, <2>2, <2>3
<1>5. ASSUME NEW l \in 0..Top
      PROVE  At(l).items \in Seq(Items)
  BY <1>4 DEF Template
<1>6. ASSUME NEW l \in 0..Top
      PROVE  /\ Len(At(l).items) \in Nat /\ DOMAIN At(l).items = 1..Len(At(l).items)
             /\ \A i \in 1..Len(At(l).items) : At(l).items[i] \in Items
  BY <1>5
<1>7. ASSUME NEW l \in 0..Top, NEW i \in 1..Len(At(l).items)
      PROVE  /\ At(l).items[i] = "yield" => l >= 2
             /\ At(l).items[i] = "partial" => l >= 1
  <2>1. i \in DOMAIN At(l).items
    BY <1>6
  <2>2. CASE l = 0
    BY <1>3, <2>1, <2>2 DEF At
  <2>3. CASE l = 1
    BY <1>1, <2>1, <2>3 DEF At
  <2> QED BY <1>2, <2>2, <2>3
<1> QED BY <1>2, <1>4, <1>5, <1>6, <1>7

(* The definition of Contents goes down the levels, so it defines.         *)
LEMMA ContentsDefined ==
  ASSUME doc \in Documents
  PROVE  Contents = [l \in 0..Top |-> FlattenSeq(Pieces(l, Contents))]
<1> DEFINE Rec(f, m) == f = [l \in 0..m |-> FlattenSeq(Pieces(l, f))]
           Undefined == {m \in 0..Top : ~\E f : Rec(f, m)}
<1>1. Top \in Nat
  BY Templates
<1>2. ASSUME NEW l \in 0..Top, NEW f, NEW g, \A k \in 0..(l - 1) : f[k] = g[k]
      PROVE  Pieces(l, f) = Pieces(l, g)
  <2>1. ASSUME NEW i \in DOMAIN At(l).items PROVE Piece(l, i, f) = Piece(l, i, g)
    <3>1. /\ At(l).items[i] \in Items
          /\ At(l).items[i] = "yield" => l >= 2
          /\ At(l).items[i] = "partial" => l >= 1
      BY Templates
    <3>2. /\ l >= 2 => f[l - 1] = g[l - 1]
          /\ l >= 1 => f[0] = g[0]
      BY <1>1, <1>2
    <3> QED BY <3>1, <3>2 DEF Piece, Items
  <2> QED BY <2>1 DEF Pieces
<1>3. Undefined = {}
  <2> SUFFICES ASSUME Undefined # {} PROVE FALSE
    OBVIOUS
  <2>1. Undefined \in SUBSET Nat
    BY <1>1
  <2>2. PICK m \in Undefined : \A k \in Undefined : m <= k
    BY <2>1, LeastExists
  <2>3. m \in 0..Top /\ ~\E f : Rec(f, m)
    OBVIOUS
  <2>4. \E f : \A l \in 0..(m - 1) : f[l] = FlattenSeq(Pieces(l, f))
    <3>1. CASE m = 0
      BY <3>1
    <3>2. CASE m # 0
      <4>1. m - 1 \in 0..Top /\ m - 1 \notin Undefined
        BY <1>1, <2>2, <2>3, <3>2
      <4>2. PICK f : Rec(f, m - 1)
        BY <4>1
      <4>3. \A l \in 0..(m - 1) : f[l] = FlattenSeq(Pieces(l, f))
        BY <4>2
      <4> QED BY <4>3
    <3> QED BY <3>1, <3>2
  <2>5. PICK f : \A l \in 0..(m - 1) : f[l] = FlattenSeq(Pieces(l, f))
    BY <2>4
  <2> DEFINE h == [l \in 0..m |-> FlattenSeq(Pieces(l, f))]
  <2>6. \A l \in 0..m : h[l] = FlattenSeq(Pieces(l, f)) /\ (l <= m - 1 => h[l] = f[l])
    BY <1>1, <2>3, <2>5
  <2>7. h = [l \in 0..m |-> h[l]]
    OBVIOUS
  <2> HIDE DEF h
  <2>8. ASSUME NEW l \in 0..m PROVE h[l] = FlattenSeq(Pieces(l, h))
    <3>1. \A k \in 0..(l - 1) : f[k] = h[k]
      BY <1>1, <2>3, <2>6
    <3>2. l \in 0..Top
      BY <1>1, <2>3
    <3>3. Pieces(l, f) = Pieces(l, h)
      BY <1>2, <3>1, <3>2
    <3> QED BY <2>6, <3>3
  <2>9. Rec(h, m)
    BY <2>7, <2>8
  <2> QED BY <2>3, <2>9
<1>4. \E f : Rec(f, Top)
  BY <1>1, <1>3
<1>5. Contents = CHOOSE f : Rec(f, Top)
  BY DEF Contents, Pieces, Piece
<1> QED BY <1>4, <1>5

(* Texts one after the other.                                              *)
LEMMA TextConcat ==
  /\ \A s, t \in Seq(Text) : s \o t \in Seq(Text)
  /\ \A s, t, u \in Seq(Text) : (s \o t) \o u = s \o (t \o u)
<1>1. ASSUME NEW s \in Seq(Text), NEW t \in Seq(Text) PROVE s \o t \in Seq(Text)
  BY ConcatProperties
<1>2. ASSUME NEW s \in Seq(Text), NEW t \in Seq(Text), NEW u \in Seq(Text)
      PROVE  (s \o t) \o u = s \o (t \o u)
  BY ConcatAssociative
<1> QED BY <1>1, <1>2

(* The content of a level is a text, and is that of its items one after    *)
(* the other: Upto[l][n] is that of the first n.                           *)
Unfolds(g, l) ==
  /\ g \in [0..Len(At(l).items) -> Seq(Text)]
  /\ g[0] = <<>> /\ g[Len(At(l).items)] = Contents[l]
  /\ \A n \in 1..Len(At(l).items) : g[n] = g[n - 1] \o Piece(l, n, Contents)
Unfolding(l) == CHOOSE g : Unfolds(g, l)
Upto == [l \in 0..Top |-> Unfolding(l)]

LEMMA UptoUnfolds ==
  ASSUME doc \in Documents, NEW l \in 0..Top
  PROVE  /\ Unfolds(Upto[l], l)
         /\ \A n \in 1..Len(At(l).items) : Piece(l, n, Contents) \in Seq(Text)
<1>1. /\ Top \in Nat
      /\ Contents = [k \in 0..Top |-> FlattenSeq(Pieces(k, Contents))]
  BY Templates, ContentsDefined
<1> DEFINE Typed(k, n) == Piece(k, n, Contents) \in Seq(Text)
           Good(k) == /\ Contents[k] \in Seq(Text)
                      /\ \A n \in 1..Len(At(k).items) : Typed(k, n)
                      /\ \E g : Unfolds(g, k)
           Bad == {k \in 0..Top : ~Good(k)}
<1>2. Bad = {}
  <2> SUFFICES ASSUME Bad # {} PROVE FALSE
    OBVIOUS
  <2>1. Bad \in SUBSET Nat
    BY <1>1
  <2>2. PICK k \in Bad : \A j \in Bad : k <= j
    BY <2>1, LeastExists
  <2>3. k \in 0..Top /\ ~Good(k)
    OBVIOUS
  <2>4. \A j \in 0..(k - 1) : Contents[j] \in Seq(Text)
    BY <1>1, <2>2, <2>3
  <2>5. ASSUME NEW n \in 1..Len(At(k).items) PROVE Typed(k, n)
    <3>1. /\ At(k).items[n] \in Items /\ n \in Nat /\ k \in Nat
          /\ At(k).items[n] = "yield" => k >= 2
          /\ At(k).items[n] = "partial" => k >= 1
      BY <1>1, <2>3, Templates
    <3>2. <<k, n>> \in Text
      BY <3>1 DEF Text
    <3>3. << <<k, n>> >> \in Seq(Text) /\ <<>> \in Seq(Text)
      BY <3>2
    <3>4. /\ k >= 2 => Contents[k - 1] \in Seq(Text)
          /\ k >= 1 => Contents[0] \in Seq(Text)
      BY <2>3, <2>4, <3>1
    <3> QED BY <3>1, <3>3, <3>4 DEF Piece, Items
  <2> DEFINE ss == Pieces(k, Contents)
             len == Len(At(k).items)
  <2>6. len \in Nat /\ DOMAIN At(k).items = 1..len
    BY <2>3, Templates
  <2>7. ss \in Seq(Seq(Text)) /\ Len(ss) = len /\ \A n \in 1..len : ss[n] = Piece(k, n, Contents)
    <3>1. ss = [n \in 1..len |-> Piece(k, n, Contents)]
      BY <2>6 DEF Pieces
    <3> HIDE DEF ss, len
    <3>2. \A n \in 1..len : Piece(k, n, Contents) \in Seq(Text)
      BY <2>5 DEF len
    <3> QED BY <2>6, <3>1, <3>2
  <2>8. PICK g \in [0..Len(ss) -> Seq(Text)] :
          /\ g[0] = <<>>
          /\ \A i \in 1..Len(ss) : g[i] = g[i - 1] \o ss[i]
          /\ g[Len(ss)] = FlattenSeq(ss)
    BY <2>7, FlattenFacts
  <2>9. Contents[k] = FlattenSeq(ss)
    BY <1>1, <2>3
  <2> HIDE DEF ss
  <2>10. Unfolds(g, k)
    BY <2>6, <2>7, <2>8, <2>9 DEF Unfolds
  <2>11. Contents[k] \in Seq(Text)
    <3>1. Len(ss) \in 0..Len(ss) /\ Contents[k] = g[Len(ss)]
      BY <2>6, <2>7, <2>8, <2>9
    <3> QED BY <3>1
  <2>12. Good(k)
    BY <2>5, <2>10, <2>11
  <2> QED BY <2>3, <2>12
<1>3. Good(l)
  BY <1>2
<1>4. Unfolds(Unfolding(l), l)
  BY <1>3 DEF Unfolding
<1> QED BY <1>3, <1>4 DEF Upto

(* One text is the beginning of another.                                   *)
Begins(s, t) == \E u \in Seq(Text) : t = s \o u

LEMMA BeginsFacts ==
  ASSUME NEW s \in Seq(Text), NEW t \in Seq(Text)
  PROVE  /\ Begins(s, s)
         /\ \A v \in Seq(Text) : Begins(s, t) => Begins(s, t \o v)
         /\ \A v \in Seq(Text) : Begins(s, t) /\ Begins(t, v) => Begins(s, v)
         /\ Begins(s, s \o t)
         /\ \A v \in Seq(Text) : Begins(s, t) => Begins(v \o s, v \o t)
         /\ Begins(s, t) => IsPrefix(s, t)
<1>1. <<>> \in Seq(Text) /\ s \o <<>> = s
  BY ConcatEmptySeq
<1>2. ASSUME NEW v \in Seq(Text), NEW u \in Seq(Text), t = s \o u
      PROVE  Begins(s, t \o v) /\ Begins(v \o s, v \o t)
  <2>1. t \o v = s \o (u \o v) /\ u \o v \in Seq(Text)
    BY <1>2, TextConcat
  <2>2. v \o t = (v \o s) \o u
    BY <1>2, TextConcat, SMTT(30)
  <2> QED BY <2>1, <2>2 DEF Begins
<1>3. ASSUME NEW v \in Seq(Text), NEW u \in Seq(Text), t = s \o u, NEW w \in Seq(Text), v = t \o w
      PROVE  Begins(s, v)
  <2>1. v = s \o (u \o w) /\ u \o w \in Seq(Text)
    BY <1>3, TextConcat
  <2> QED BY <2>1 DEF Begins
<1>4. ASSUME NEW u \in Seq(Text), t = s \o u PROVE IsPrefix(s, t)
  <2>1. /\ Len(s) \in Nat /\ Len(u) \in Nat /\ Len(t) = Len(s) + Len(u)
        /\ \A i \in 1..Len(s) : t[i] = s[i] /\ s[i] \in Text
    BY <1>4, ConcatProperties
  <2> DEFINE m == Len(s)
  <2>2. m \in Int /\ 1 \in Int /\ \A i \in 1..m : s[i] \in Text /\ t[i] \in Text
    BY <2>1
  <2> HIDE DEF m
  <2>3. /\ SubSeq(s, 1, m) \in Seq(Text) /\ SubSeq(t, 1, m) \in Seq(Text)
        /\ Len(SubSeq(s, 1, m)) = Len(SubSeq(t, 1, m))
        /\ \A i \in 1..m - 1 + 1 : SubSeq(s, 1, m)[i] = s[1 + i - 1] /\ SubSeq(t, 1, m)[i] = t[1 + i - 1]
        /\ Len(SubSeq(s, 1, m)) = IF 1 <= m THEN m - 1 + 1 ELSE 0
    BY <2>2, SubSeqProperties
  <2>4. \A i \in 1..Len(SubSeq(s, 1, m)) : SubSeq(s, 1, m)[i] = SubSeq(t, 1, m)[i]
    BY <2>1, <2>2, <2>3 DEF m
  <2>5. SubSeq(s, 1, m) = SubSeq(t, 1, m)
    BY <2>3, <2>4, SeqEqual
  <2> QED BY <2>1, <2>5 DEF IsPrefix, m
<1> QED BY <1>1, <1>2, <1>3, <1>4 DEF Begins

LEMMA BeginsTransitive ==
  \A s, t, v \in Seq(Text) : Begins(s, t) /\ Begins(t, v) => Begins(s, v)
BY BeginsFacts

(* What the steps need of it.                                              *)
LEMMA ContentFacts ==
  ASSUME doc \in Documents, NEW l \in 0..Top
  PROVE  /\ Contents[l] \in Seq(Text) /\ Upto[l][0] = <<>>
         /\ Upto[l][Len(At(l).items)] = Contents[l]
         /\ \A n \in 0..Len(At(l).items) : Upto[l][n] \in Seq(Text) /\ Begins(Upto[l][n], Contents[l])
         /\ \A n \in 1..Len(At(l).items) :
              /\ At(l).items[n] = "text" => Upto[l][n] = Append(Upto[l][n - 1], <<l, n>>)
              /\ At(l).items[n] \in {"pause", "sleep"} => Upto[l][n] = Upto[l][n - 1]
              /\ At(l).items[n] = "yield" => l >= 2 /\ Upto[l][n] = Upto[l][n - 1] \o Contents[l - 1]
              /\ At(l).items[n] = "partial" => l >= 1 /\ Upto[l][n] = Upto[l][n - 1] \o Contents[0]
<1> DEFINE g == Upto[l]
           len == Len(At(l).items)
<1>1. /\ g \in [0..len -> Seq(Text)] /\ g[0] = <<>> /\ g[len] = Contents[l]
      /\ \A n \in 1..len : g[n] = g[n - 1] \o Piece(l, n, Contents) /\ Piece(l, n, Contents) \in Seq(Text)
      /\ len \in Nat
  BY UptoUnfolds, Templates DEF Unfolds
<1> HIDE DEF g, len
<1>2. \A n \in 0..len : g[n] \in Seq(Text)
  BY <1>1
<1>3. \A n \in 0..len : Begins(g[n], g[len])
  <2> DEFINE Bad == {k \in 0..len : ~Begins(g[len - k], g[len])}
  <2> SUFFICES ASSUME Bad # {} PROVE FALSE
    <3>1. \A n \in 0..len : len - n \in 0..len /\ len - (len - n) = n
      BY <1>1
    <3> QED BY <3>1
  <2>1. Bad \in SUBSET Nat /\ \A j \in 0..len : j \notin Bad => Begins(g[len - j], g[len])
    BY <1>1
  <2>2. PICK k \in Bad : \A j \in Bad : k <= j
    BY <2>1, LeastExists
  <2>3. k \in 0..len /\ ~Begins(g[len - k], g[len])
    OBVIOUS
  <2> HIDE DEF Bad
  <2>4. k # 0
    <3>1. len \in 0..len /\ len - 0 = len
      BY <1>1
    <3>2. Begins(g[len], g[len])
      BY <1>2, <3>1, BeginsFacts
    <3> QED BY <2>3, <3>1, <3>2
  <2>5. k - 1 \in 0..len /\ k - 1 \notin Bad
    BY <1>1, <2>2, <2>3, <2>4
  <2> DEFINE n == len - k
  <2>6. /\ n \in 0..len /\ n + 1 \in 1..len /\ n + 1 \in 0..len /\ len \in 0..len
        /\ len - (k - 1) = n + 1 /\ (n + 1) - 1 = n
    BY <1>1, <2>3, <2>4
  <2>7. Begins(g[n + 1], g[len])
    BY <2>1, <2>5, <2>6
  <2> HIDE DEF n
  <2>8. g[n + 1] = g[n] \o Piece(l, n + 1, Contents) /\ Piece(l, n + 1, Contents) \in Seq(Text)
    BY <1>1, <2>6
  <2>9. g[n] \in Seq(Text) /\ g[n + 1] \in Seq(Text) /\ g[len] \in Seq(Text)
    BY <1>2, <2>6
  <2>10. Begins(g[n], g[len])
    <3>1. Begins(g[n], g[n + 1])
      BY <2>8, <2>9, BeginsFacts
    <3> QED BY <2>7, <2>9, <3>1, BeginsFacts
  <2> QED BY <2>3, <2>10 DEF n
<1>4. ASSUME NEW n \in 1..len
      PROVE  /\ At(l).items[n] = "text" => g[n] = Append(g[n - 1], <<l, n>>)
             /\ At(l).items[n] \in {"pause", "sleep"} => g[n] = g[n - 1]
             /\ At(l).items[n] = "yield" => l >= 2 /\ g[n] = g[n - 1] \o Contents[l - 1]
             /\ At(l).items[n] = "partial" => l >= 1 /\ g[n] = g[n - 1] \o Contents[0]
  <2>1. g[n] = g[n - 1] \o Piece(l, n, Contents) /\ g[n - 1] \in Seq(Text)
    <3>1. n - 1 \in 0..len
      BY <1>1
    <3> QED BY <1>1, <1>2, <3>1
  <2>2. /\ At(l).items[n] = "yield" => l >= 2
        /\ At(l).items[n] = "partial" => l >= 1
    BY Templates DEF len
  <2>3. l \in Nat /\ n \in Nat
    BY <1>1, Templates
  <2>4. <<l, n>> \in Text
    BY <2>3 DEF Text
  <2>5. g[n - 1] \o <<>> = g[n - 1] /\ Append(g[n - 1], <<l, n>>) = g[n - 1] \o << <<l, n>> >>
    BY <2>1, <2>4, ConcatEmptySeq, AppendIsConcat
  <2> QED BY <2>1, <2>2, <2>5 DEF Piece
<1>5. Contents[l] \in Seq(Text)
  <2>1. len \in 0..len
    BY <1>1
  <2> QED BY <1>1, <1>2, <2>1
<1>6. \A n \in 0..len : Begins(g[n], Contents[l])
  BY <1>1, <1>3
<1> QED BY <1>1, <1>2, <1>4, <1>5, <1>6 DEF g, len

-----------------------------------------------------------------------------
(* What is written, sent or not                                            *)

(* The running templates: each has yielded to the next one, or runs it as  *)
(* a partial, and none writes to a buffer older than that of one below it. *)
Called(f, g) ==
  /\ f.next >= 2
  /\ \/ At(f.level).items[f.next - 1] = "yield" /\ g.level = f.level - 1
     \/ At(f.level).items[f.next - 1] = "partial" /\ g.level = 0
WellFormed(stack, buffers) ==
  /\ stack \in Seq(Frame) /\ stack # <<>>
  /\ buffers \in Seq(Seq(Text)) /\ Buffered(stack, buffers)
  /\ \A i \in 1..Len(stack) : /\ stack[i].level \in 0..Top
                              /\ stack[i].next \in 1..Len(At(stack[i].level).items) + 1
  /\ \A i \in 1..Len(stack) - 1 : Called(stack[i], stack[i + 1])
  /\ \A i, j \in 1..Len(stack) : i <= j => stack[i].out <= stack[j].out

(* A buffer that is shared counts for the last template that shares it.    *)
Covered(stack, i) == i < Len(stack) /\ stack[i].out = stack[i + 1].out

(* A template that has a buffer of its own, not that of the one below it,  *)
(* nor the stream's own.                                                   *)
Apart(stack, i) ==
  \/ i = 1 /\ stack[i].out # 1
  \/ i > 1 /\ stack[i - 1].out # stack[i].out

(* It only depends on the buffers.                                         *)
LEMMA ApartKept ==
  ASSUME NEW stack, NEW more, NEW n \in Nat, \A i \in 1..n : more[i].out = stack[i].out
  PROVE  \A i \in 1..n : Apart(more, i) <=> Apart(stack, i)
<1>1. \A i \in 1..n : i > 1 => i - 1 \in 1..n
  OBVIOUS
<1> QED BY <1>1 DEF Apart

(* p[i] is what was sent and what the buffers hold of the templates before *)
(* the i-th, a[i] is what the document has before that template's text: the*)
(* two agree about the running template, and wherever a buffer begins.     *)
(* What is sent when the stream's own buffer is flushed next comes first in*)
(* all that is not in it.                                                  *)
Account(p, a, stack, buffers, s) ==
  /\ p \in [1..Len(stack) + 1 -> Seq(Text)] /\ a \in [1..Len(stack) -> Seq(Text)]
  /\ p[1] = s
  /\ \A i \in 1..Len(stack) :
       p[i + 1] = IF Covered(stack, i) THEN p[i] ELSE p[i] \o buffers[stack[i].out]
  /\ \A i \in 1..Len(stack) + 1 :
       IF i <= Len(stack) /\ stack[i].out = 1 THEN p[i] = s ELSE Begins(s \o buffers[1], p[i])
  /\ a[1] = <<>>
  /\ \A i \in 1..Len(stack) - 1 :
       a[i + 1] = a[i] \o Upto[stack[i].level][stack[i].next - 2]
  /\ \A i \in 1..Len(stack) : Begins(a[i] \o Contents[stack[i].level], Content)
  /\ p[Len(stack) + 1] = a[Len(stack)] \o Upto[stack[Len(stack)].level][stack[Len(stack)].next - 1]
  /\ \A i \in 1..Len(stack) : Apart(stack, i) => p[i] = a[i]
Accounted(stack, buffers, s) == \E p, a : Account(p, a, stack, buffers, s)

LEMMA WellFormedFacts ==
  ASSUME NEW stack, NEW buffers, WellFormed(stack, buffers)
  PROVE  /\ Len(stack) \in Nat \ {0} /\ DOMAIN stack = 1..Len(stack)
         /\ Len(buffers) \in Nat \ {0} /\ DOMAIN buffers = 1..Len(buffers) /\ 1 \in DOMAIN buffers
         /\ \A b \in 1..Len(buffers) : buffers[b] \in Seq(Text)
         /\ \A i \in 1..Len(stack) : /\ stack[i] \in Frame /\ stack[i].out \in 1..Len(buffers)
                                     /\ buffers[stack[i].out] \in Seq(Text)
                                     /\ stack[i].next \in Nat \ {0} /\ stack[i].out \in Nat \ {0}
<1>1. Len(stack) \in Nat \ {0} /\ DOMAIN stack = 1..Len(stack) /\ \A i \in 1..Len(stack) : stack[i] \in Frame
  BY EmptySeq DEF WellFormed
<1>2. Len(buffers) \in Nat /\ DOMAIN buffers = 1..Len(buffers) /\ \A b \in 1..Len(buffers) : buffers[b] \in Seq(Text)
  BY DEF WellFormed
<1>3. \A i \in 1..Len(stack) : stack[i].out \in 1..Len(buffers)
  BY <1>1 DEF WellFormed, Buffered
<1>4. Len(buffers) # 0
  BY <1>1, <1>2, <1>3
<1> QED BY <1>1, <1>2, <1>3, <1>4 DEF Frame

(* A template that goes on: one item further.                              *)
Further(stack, more) ==
  /\ more \in Seq(Frame) /\ Len(more) = Len(stack)
  /\ \A i \in 1..Len(stack) - 1 : more[i] = stack[i]
  /\ more[Len(stack)].level = stack[Len(stack)].level
  /\ more[Len(stack)].out = stack[Len(stack)].out
  /\ more[Len(stack)].next = stack[Len(stack)].next + 1

LEMMA PauseAccount ==
  ASSUME doc \in Documents, NEW stack, NEW buffers, NEW s, NEW more,
         WellFormed(stack, buffers), Accounted(stack, buffers, s), Further(stack, more),
         stack[Len(stack)].next <= Len(At(stack[Len(stack)].level).items),
         At(stack[Len(stack)].level).items[stack[Len(stack)].next] \in {"pause", "sleep"}
  PROVE  Accounted(more, buffers, s)
<1> DEFINE k == Len(stack)
           l == stack[k].level
           n == stack[k].next
<1>1. PICK p, a : Account(p, a, stack, buffers, s)
  BY DEF Accounted
<1>2. /\ k \in Nat \ {0} /\ l \in 0..Top /\ n \in 1..Len(At(l).items)
      /\ Len(more) = k /\ more[k].level = l /\ more[k].next = n + 1 /\ more[k].out = stack[k].out
      /\ \A i \in 1..k - 1 : more[i] = stack[i]
  <2>1. k \in Nat \ {0} /\ n \in Nat \ {0}
    BY WellFormedFacts
  <2>2. l \in 0..Top /\ Len(At(l).items) \in Nat
    BY <2>1, Templates DEF WellFormed
  <2> QED BY <2>1, <2>2 DEF Further
<1>3. Upto[l][n] = Upto[l][n - 1]
  BY <1>2, ContentFacts
<1>4. \A i \in 1..k : more[i].out = stack[i].out /\ more[i].level = stack[i].level
  BY <1>2
<1>5. \A i \in 1..k : Covered(more, i) <=> Covered(stack, i)
  BY <1>2, <1>4 DEF Covered
<1> HIDE DEF k, l, n
<1>6. Account(p, a, more, buffers, s)
  <2>1. /\ p \in [1..k + 1 -> Seq(Text)] /\ a \in [1..k -> Seq(Text)] /\ p[1] = s /\ a[1] = <<>>
        /\ \A i \in 1..k : p[i + 1] = IF Covered(stack, i) THEN p[i] ELSE p[i] \o buffers[stack[i].out]
        /\ \A i \in 1..k + 1 : IF i <= k /\ stack[i].out = 1 THEN p[i] = s ELSE Begins(s \o buffers[1], p[i])
        /\ \A i \in 1..k - 1 : a[i + 1] = a[i] \o Upto[stack[i].level][stack[i].next - 2]
        /\ \A i \in 1..k : Begins(a[i] \o Contents[stack[i].level], Content)
        /\ p[k + 1] = a[k] \o Upto[l][n - 1]
        /\ \A i \in 1..k : Apart(stack, i) => p[i] = a[i]
    BY <1>1 DEF Account, k, l, n
  <2>2. \A i \in 1..k : p[i + 1] = IF Covered(more, i) THEN p[i] ELSE p[i] \o buffers[more[i].out]
    BY <1>4, <1>5, <2>1
  <2>3. \A i \in 1..k + 1 : IF i <= k /\ more[i].out = 1 THEN p[i] = s ELSE Begins(s \o buffers[1], p[i])
    <3>1. \A i \in 1..k + 1 : i <= k => i \in 1..k /\ more[i].out = stack[i].out
      BY <1>2, <1>4
    <3> QED BY <2>1, <3>1
  <2>4. \A i \in 1..k - 1 : a[i + 1] = a[i] \o Upto[more[i].level][more[i].next - 2]
    BY <1>2, <2>1
  <2>5. \A i \in 1..k : Begins(a[i] \o Contents[more[i].level], Content)
    BY <1>4, <2>1
  <2>6. p[k + 1] = a[k] \o Upto[more[k].level][more[k].next - 1]
    <3>1. more[k].next - 1 = n
      BY <1>2
    <3> QED BY <1>2, <1>3, <2>1, <3>1
  <2>7. \A i \in 1..k : Apart(more, i) => p[i] = a[i]
    BY <1>2, <1>4, <2>1, ApartKept
  <2> QED BY <1>2, <2>1, <2>2, <2>3, <2>4, <2>5, <2>6, <2>7 DEF Account
<1> QED BY <1>6 DEF Accounted

LEMMA FlushAccount ==
  ASSUME NEW stack, NEW buffers, NEW s,
         WellFormed(stack, buffers), Accounted(stack, buffers, s),
         buffers[1] = <<>> \/ stack[1].out = 1
  PROVE  Accounted(stack, [buffers EXCEPT ![1] = <<>>], s \o buffers[1])
<1> DEFINE k == Len(stack)
           out(i) == stack[i].out
           s2 == s \o buffers[1]
           b2 == [buffers EXCEPT ![1] = <<>>]
<1>1. PICK p, a : Account(p, a, stack, buffers, s)
  BY DEF Accounted
<1>2. /\ k \in Nat \ {0} /\ 1 \in DOMAIN buffers /\ buffers[1] \in Seq(Text)
      /\ \A i \in 1..k : out(i) \in Nat \ {0} /\ out(i) \in DOMAIN buffers
      /\ \A i, j \in 1..k : i <= j => out(i) <= out(j)
  BY WellFormedFacts DEF WellFormed
<1>3. /\ p \in [1..k + 1 -> Seq(Text)] /\ p[1] = s
      /\ \A i \in 1..k : p[i + 1] = IF Covered(stack, i) THEN p[i] ELSE p[i] \o buffers[out(i)]
      /\ \A i \in 1..k + 1 : IF i <= k /\ out(i) = 1 THEN p[i] = s ELSE Begins(s \o buffers[1], p[i])
  BY <1>1 DEF Account
<1>4. s \in Seq(Text) /\ s2 \in Seq(Text) /\ s2 \o <<>> = s2
  <2>1. s \in Seq(Text)
    BY <1>2, <1>3
  <2> QED BY <1>2, <2>1, ConcatProperties, ConcatEmptySeq
<1>5. b2[1] = <<>> /\ \A i \in 1..k : out(i) # 1 => b2[out(i)] = buffers[out(i)]
  BY <1>2
<1> DEFINE q == [i \in 1..k + 1 |-> IF i <= k /\ out(i) = 1 THEN s2 ELSE p[i]]
<1> HIDE DEF s2, b2
<1>6. /\ q \in [1..k + 1 -> Seq(Text)]
      /\ \A i \in 1..k + 1 : q[i] = IF i <= k /\ out(i) = 1 THEN s2 ELSE p[i]
  BY <1>3, <1>4
<1>7. q[1] = s2
  <2>1. CASE out(1) = 1
    BY <1>2, <1>6, <2>1
  <2>2. CASE out(1) # 1
    <3>1. buffers[1] = <<>>
      BY <2>2
    <3>2. s2 = s
      BY <1>4, <3>1, ConcatEmptySeq DEF s2
    <3> QED BY <1>2, <1>3, <1>6, <2>2, <3>2
  <2> QED BY <2>1, <2>2
<1>8. ASSUME NEW i \in 1..k
      PROVE  q[i + 1] = IF Covered(stack, i) THEN q[i] ELSE q[i] \o b2[out(i)]
  <2>1. i \in 1..k + 1 /\ i + 1 \in 1..k + 1 /\ i <= k /\ (i + 1 <= k <=> i < k)
    BY <1>2
  <2>2. CASE Covered(stack, i)
    <3>1. i < k /\ out(i) = out(i + 1)
      BY <2>2 DEF Covered
    <3> QED BY <1>3, <1>6, <2>1, <2>2, <3>1
  <2>3. CASE ~Covered(stack, i) /\ out(i) = 1
    <3>1. ~(i + 1 <= k /\ out(i + 1) = 1)
      BY <2>1, <2>3 DEF Covered
    <3>2. p[i + 1] = s2
      BY <1>3, <2>1, <2>3 DEF s2
    <3>3. q[i + 1] = s2 /\ q[i] = s2
      BY <1>6, <2>1, <2>3, <3>1, <3>2
    <3> QED BY <1>4, <1>5, <2>3, <3>3
  <2>4. CASE ~Covered(stack, i) /\ out(i) # 1
    <3>1. ~(i + 1 <= k /\ out(i + 1) = 1)
      <4> SUFFICES ASSUME i + 1 <= k, out(i + 1) = 1 PROVE FALSE
        OBVIOUS
      <4>1. i + 1 \in 1..k /\ i <= i + 1
        BY <2>1
      <4>2. out(i) <= out(i + 1)
        BY <1>2, <4>1
      <4> QED BY <1>2, <2>4, <4>2
    <3>2. q[i + 1] = p[i + 1] /\ q[i] = p[i] /\ b2[out(i)] = buffers[out(i)]
      BY <1>5, <1>6, <2>1, <2>4, <3>1
    <3> QED BY <1>3, <2>4, <3>2
  <2> QED BY <2>2, <2>3, <2>4
<1>9. ASSUME NEW i \in 1..k + 1
      PROVE  IF i <= k /\ out(i) = 1 THEN q[i] = s2 ELSE Begins(s2 \o b2[1], q[i])
  <2>1. CASE i <= k /\ out(i) = 1
    BY <1>6, <2>1
  <2>2. CASE ~(i <= k /\ out(i) = 1)
    <3>1. Begins(s2, p[i]) /\ q[i] = p[i]
      BY <1>3, <1>6, <2>2 DEF s2
    <3> QED BY <1>4, <1>5, <2>2, <3>1
  <2> QED BY <2>1, <2>2
<1>10. q[k + 1] = p[k + 1]
  BY <1>2, <1>6
<1>11. ASSUME NEW i \in 1..k, Apart(stack, i) PROVE q[i] = p[i]
  <2>1. i \in 1..k + 1 /\ (i # 1 => i - 1 \in 1..k /\ i - 1 <= i)
    BY <1>2
  <2>2. out(i) # 1
    <3>1. CASE i = 1
      BY <1>11, <3>1 DEF Apart
    <3>2. CASE i # 1
      <4>1. out(i - 1) # out(i) /\ out(i - 1) <= out(i) /\ out(i - 1) \in Nat \ {0} /\ out(i) \in Nat
        BY <1>2, <1>11, <2>1, <3>2 DEF Apart
      <4> QED BY <4>1
    <3> QED BY <3>1, <3>2
  <2> QED BY <1>6, <2>1, <2>2
<1> HIDE DEF q
<1>12. Account(q, a, stack, b2, s2)
  BY <1>1, <1>6, <1>7, <1>8, <1>9, <1>10, <1>11 DEF Account
<1> QED BY <1>12 DEF Accounted, b2, s2

LEMMA WriteAccount ==
  ASSUME doc \in Documents, NEW stack, NEW buffers, NEW s, NEW more, NEW b2,
         WellFormed(stack, buffers), Accounted(stack, buffers, s), Further(stack, more),
         stack[Len(stack)].next <= Len(At(stack[Len(stack)].level).items),
         At(stack[Len(stack)].level).items[stack[Len(stack)].next] = "text",
         b2 = [buffers EXCEPT ![stack[Len(stack)].out] =
                 Append(@, <<stack[Len(stack)].level, stack[Len(stack)].next>>)]
  PROVE  Accounted(more, b2, s)
<1> DEFINE k == Len(stack)
           l == stack[k].level
           n == stack[k].next
           o == stack[k].out
           w == << <<l, n>> >>
           out(i) == stack[i].out
<1>1. PICK p, a : Account(p, a, stack, buffers, s)
  BY DEF Accounted
<1>2. /\ k \in Nat \ {0} /\ l \in 0..Top /\ n \in 1..Len(At(l).items)
      /\ Len(more) = k /\ more[k].level = l /\ more[k].next = n + 1 /\ more[k].out = o
      /\ \A i \in 1..k - 1 : more[i] = stack[i]
  <2>1. k \in Nat \ {0} /\ n \in Nat \ {0}
    BY WellFormedFacts
  <2>2. l \in 0..Top /\ Len(At(l).items) \in Nat
    BY <2>1, Templates DEF WellFormed
  <2> QED BY <2>1, <2>2 DEF Further
<1>3. /\ o \in DOMAIN buffers /\ buffers[o] \in Seq(Text) /\ 1 \in DOMAIN buffers /\ buffers[1] \in Seq(Text)
      /\ \A i \in 1..k : out(i) \in Nat \ {0} /\ out(i) \in DOMAIN buffers
      /\ \A i, j \in 1..k : i <= j => out(i) <= out(j)
      /\ out(k) = o
  <2>1. \A i, j \in 1..k : i <= j => out(i) <= out(j)
    BY DEF WellFormed
  <2>2. k \in 1..k
    BY <1>2
  <2> QED BY <2>1, <2>2, WellFormedFacts
<1>4. <<l, n>> \in Text /\ w \in Seq(Text)
  BY <1>2, Templates DEF Text
<1>5. Upto[l][n] = Upto[l][n - 1] \o w /\ Upto[l][n - 1] \in Seq(Text)
  <2>1. n - 1 \in 0..Len(At(l).items)
    BY <1>2, Templates
  <2>2. Upto[l][n - 1] \in Seq(Text) /\ Upto[l][n] = Append(Upto[l][n - 1], <<l, n>>)
    BY <1>2, <2>1, ContentFacts
  <2> QED BY <1>4, <2>2, AppendIsConcat
<1>6. /\ p \in [1..k + 1 -> Seq(Text)] /\ a \in [1..k -> Seq(Text)] /\ p[1] = s /\ a[1] = <<>>
      /\ \A i \in 1..k : p[i + 1] = IF Covered(stack, i) THEN p[i] ELSE p[i] \o buffers[out(i)]
      /\ \A i \in 1..k + 1 : IF i <= k /\ out(i) = 1 THEN p[i] = s ELSE Begins(s \o buffers[1], p[i])
      /\ \A i \in 1..k - 1 : a[i + 1] = a[i] \o Upto[stack[i].level][stack[i].next - 2]
      /\ \A i \in 1..k : Begins(a[i] \o Contents[stack[i].level], Content)
      /\ p[k + 1] = a[k] \o Upto[l][n - 1]
      /\ \A i \in 1..k : Apart(stack, i) => p[i] = a[i]
  BY <1>1 DEF Account
<1>7. /\ b2[o] = buffers[o] \o w
      /\ \A b \in DOMAIN buffers : b # o => b2[b] = buffers[b]
  BY <1>3, <1>4, AppendIsConcat
<1>8. /\ k \in 1..k /\ k \in 1..k + 1 /\ k + 1 \in 1..k + 1 /\ 1 \in 1..k /\ ~(k + 1 <= k)
      /\ ~Covered(stack, k) /\ (n + 1) - 1 = n
      /\ \A i \in 1..k : more[i].out = out(i) /\ more[i].level = stack[i].level
      /\ \A i \in 1..k : Covered(more, i) <=> Covered(stack, i)
  <2>1. k \in 1..k /\ k \in 1..k + 1 /\ k + 1 \in 1..k + 1 /\ 1 \in 1..k /\ ~(k + 1 <= k) /\ (n + 1) - 1 = n
    BY <1>2
  <2>2. \A i \in 1..k : more[i].out = out(i) /\ more[i].level = stack[i].level
    BY <1>2, SMTT(30)
  <2>3. \A i \in 1..k : i < k => i + 1 \in 1..k
    BY <1>2
  <2>4. ~(k < k) /\ k < k + 1
    BY <1>2
  <2> QED BY <1>2, <2>1, <2>2, <2>3, <2>4 DEF Covered
<1> DEFINE q == [i \in 1..k + 1 |-> IF i = k + 1 THEN p[k + 1] \o w ELSE p[i]]
<1> HIDE DEF k, l, n, o, w
<1>9. /\ q \in [1..k + 1 -> Seq(Text)] /\ q[k + 1] = p[k + 1] \o w
      /\ \A i \in 1..k : q[i] = p[i] /\ p[i] \in Seq(Text)
      /\ p[k + 1] \in Seq(Text) /\ s \in Seq(Text)
  <2>0. \A i \in 1..k : i \in 1..k + 1 /\ i # k + 1
    BY <1>2
  <2>1. p[k + 1] \in Seq(Text) /\ s \in Seq(Text) /\ \A i \in 1..k : p[i] \in Seq(Text)
    BY <1>6, <1>8, <2>0
  <2>2. p[k + 1] \o w \in Seq(Text)
    BY <1>4, <2>1, ConcatProperties
  <2>3. \A i \in 1..k + 1 : i # k + 1 => i \in 1..k
    BY <1>2
  <2> QED BY <1>8, <2>0, <2>1, <2>2, <2>3
<1>10. ASSUME NEW i \in 1..k
       PROVE  q[i + 1] = IF Covered(more, i) THEN q[i] ELSE q[i] \o b2[more[i].out]
  <2>1. CASE i = k
    <3>1. ~Covered(more, k) /\ more[i].out = o
      BY <1>2, <1>8, <2>1
    <3>2. p[k + 1] = p[k] \o buffers[o]
      BY <1>3, <1>6, <1>8
    <3>3. p[k] \in Seq(Text) /\ q[k] = p[k] /\ buffers[o] \in Seq(Text) /\ w \in Seq(Text)
      BY <1>3, <1>4, <1>8, <1>9
    <3>4. (p[k] \o buffers[o]) \o w = p[k] \o (buffers[o] \o w)
      BY <3>3, TextConcat
    <3>5. q[k + 1] = p[k] \o (buffers[o] \o w)
      BY <1>9, <3>2, <3>4
    <3> QED BY <1>7, <2>1, <3>1, <3>3, <3>5
  <2>2. CASE i # k
    <3>1. i + 1 \in 1..k /\ i <= k - 1 /\ k \in 1..k
      BY <1>2, <2>2
    <3>2. q[i + 1] = p[i + 1] /\ q[i] = p[i]
      BY <1>9, <3>1
    <3>3. ASSUME ~Covered(stack, i) PROVE b2[out(i)] = buffers[out(i)]
      <4>1. out(i) # out(i + 1) /\ out(i) <= out(i + 1) /\ out(i + 1) <= out(k)
        BY <1>2, <1>3, <3>1, <3>3 DEF Covered, k
      <4>2. out(i) # o
        BY <1>3, <3>1, <4>1
      <4> QED BY <1>3, <1>7, <4>2
    <3>4. p[i + 1] = IF Covered(stack, i) THEN p[i] ELSE p[i] \o buffers[out(i)]
      BY <1>6
    <3>5. more[i].out = out(i) /\ (Covered(more, i) <=> Covered(stack, i))
      BY <1>8
    <3> QED BY <3>2, <3>3, <3>4, <3>5
  <2> QED BY <2>1, <2>2
<1>11. ASSUME NEW i \in 1..k + 1
       PROVE  IF i <= k /\ more[i].out = 1 THEN q[i] = s ELSE Begins(s \o b2[1], q[i])
  <2>1. CASE i <= k
    <3>1. i \in 1..k /\ k \in 1..k
      BY <1>2, <2>1
    <3>2. q[i] = p[i] /\ more[i].out = out(i)
      BY <1>8, <1>9, <3>1
    <3>3. ASSUME out(i) # 1 PROVE b2[1] = buffers[1]
      <4>1. out(i) <= o
        BY <1>2, <1>3, <3>1, SMTT(30)
      <4>2. o # 1
        BY <1>3, <3>1, <3>3, <4>1, SMTT(30)
      <4> QED BY <1>3, <1>7, <4>2
    <3> QED BY <1>6, <2>1, <3>2, <3>3
  <2>2. CASE i = k + 1
    <3>1. CASE o = 1
      <4>1. k <= k /\ ~Covered(more, k) /\ more[k].out = o
        BY <1>2, <1>8
      <4>2. p[k] = s
        BY <1>3, <1>6, <1>8, <3>1, <4>1
      <4>3. q[k + 1] = q[k] \o b2[o]
        BY <1>8, <1>10, <4>1
      <4>4. q[k + 1] = s \o b2[1]
        BY <1>8, <1>9, <3>1, <4>2, <4>3
      <4>5. q[k + 1] \in Seq(Text)
        BY <1>8, <1>9
      <4>6. Begins(q[k + 1], q[k + 1])
        BY <4>5, BeginsFacts
      <4> QED BY <1>8, <2>2, <4>4, <4>6
    <3>2. CASE o # 1
      <4>1. b2[1] = buffers[1]
        BY <1>3, <1>7, <3>2
      <4>2. Begins(s \o buffers[1], p[k + 1])
        BY <1>6, <1>8
      <4>3. s \o buffers[1] \in Seq(Text)
        BY <1>3, <1>9, ConcatProperties
      <4>4. Begins(s \o buffers[1], p[k + 1] \o w)
        <5> DEFINE x == s \o buffers[1]
                   y == p[k + 1]
        <5>1. x \in Seq(Text) /\ y \in Seq(Text) /\ w \in Seq(Text) /\ Begins(x, y)
          BY <1>4, <1>9, <4>2, <4>3
        <5> HIDE DEF x, y
        <5>2. Begins(x, y \o w)
          BY <5>1, BeginsFacts
        <5> QED BY <5>2 DEF x, y
      <4> QED BY <1>8, <1>9, <2>2, <4>1, <4>4
    <3> QED BY <3>1, <3>2
  <2> QED BY <1>2, <2>1, <2>2
<1>12. q[k + 1] = a[k] \o Upto[more[k].level][more[k].next - 1]
  <2>1. a[k] \in Seq(Text) /\ Upto[l][n - 1] \in Seq(Text) /\ w \in Seq(Text)
    BY <1>4, <1>5, <1>6, <1>8
  <2>2. (a[k] \o Upto[l][n - 1]) \o w = a[k] \o (Upto[l][n - 1] \o w)
    BY <2>1, TextConcat
  <2>3. q[k + 1] = a[k] \o Upto[l][n]
    BY <1>5, <1>6, <1>9, <2>2
  <2> QED BY <1>2, <1>8, <2>3
<1>13. q[1] = s
  BY <1>6, <1>8, <1>9
<1>14. \A i \in 1..k - 1 : a[i + 1] = a[i] \o Upto[more[i].level][more[i].next - 2]
  BY <1>2, <1>6
<1>15. \A i \in 1..k : Begins(a[i] \o Contents[more[i].level], Content)
  BY <1>6, <1>8
<1>16. \A i \in 1..k : Apart(more, i) => q[i] = a[i]
  <2> SUFFICES ASSUME NEW i \in 1..k, Apart(more, i)
               PROVE  q[i] = a[i]
    OBVIOUS
  <2>1. Apart(stack, i)
    BY <1>2, <1>8, ApartKept
  <2>2. p[i] = a[i]
    BY <1>6, <2>1
  <2> QED BY <1>9, <2>2
<1> HIDE DEF q
<1>17. Account(q, a, more, b2, s)
  BY <1>2, <1>6, <1>9, <1>10, <1>11, <1>12, <1>13, <1>14, <1>15, <1>16 DEF Account
<1> QED BY <1>17 DEF Accounted

(* A template that runs another one: as a partial, or as what it surrounds.*)
Entered(stack, more) ==
  /\ more \in Seq(Frame) /\ Len(more) = Len(stack) + 1
  /\ \A i \in 1..Len(stack) - 1 : more[i] = stack[i]
  /\ more[Len(stack)].level = stack[Len(stack)].level
  /\ more[Len(stack)].out = stack[Len(stack)].out
  /\ more[Len(stack)].next = stack[Len(stack)].next + 1
  /\ more[Len(stack) + 1].next = 1 /\ more[Len(stack) + 1].level \in 0..Top
  /\ Called(more[Len(stack)], more[Len(stack) + 1])
  /\ more[Len(stack) + 1].out >= stack[Len(stack)].out

LEMMA EnterAccount ==
  ASSUME doc \in Documents, NEW stack, NEW buffers, NEW s, NEW more, NEW b2,
         WellFormed(stack, buffers), Accounted(stack, buffers, s), Entered(stack, more),
         stack[Len(stack)].next <= Len(At(stack[Len(stack)].level).items),
         b2[1] = buffers[1], \A i \in 1..Len(stack) : b2[stack[i].out] = buffers[stack[i].out],
         \/ more[Len(stack) + 1].out = stack[Len(stack)].out
         \/ b2[more[Len(stack) + 1].out] = <<>>
  PROVE  Accounted(more, b2, s)
<1> DEFINE k == Len(stack)
           l == stack[k].level
           n == stack[k].next
           o == stack[k].out
           l2 == more[k + 1].level
           o2 == more[k + 1].out
           out(i) == stack[i].out
<1>1. PICK p, a : Account(p, a, stack, buffers, s)
  BY DEF Accounted
<1>2. /\ k \in Nat \ {0} /\ l \in 0..Top /\ n \in 1..Len(At(l).items)
      /\ Len(more) = k + 1 /\ more[k].level = l /\ more[k].next = n + 1 /\ more[k].out = o
      /\ \A i \in 1..k - 1 : more[i] = stack[i]
      /\ l2 \in 0..Top /\ o2 >= o /\ o2 \in Nat /\ more[k + 1].next = 1
  <2>1. k \in Nat \ {0} /\ n \in Nat \ {0}
    BY WellFormedFacts
  <2>2. l \in 0..Top /\ Len(At(l).items) \in Nat
    BY <2>1, Templates DEF WellFormed
  <2>3. more[k + 1] \in Frame
    BY <2>1 DEF Entered
  <2> QED BY <2>1, <2>2, <2>3, SMTT(30) DEF Entered, Frame
<1>3. /\ buffers[1] \in Seq(Text) /\ b2[1] = buffers[1]
      /\ \A i \in 1..k : out(i) \in Nat \ {0} /\ b2[out(i)] = buffers[out(i)] /\ buffers[out(i)] \in Seq(Text)
      /\ out(k) = o /\ o \in Nat \ {0} /\ (o2 = o \/ b2[o2] = <<>>)
  <2>1. k \in 1..k
    BY <1>2
  <2> QED BY <2>1, WellFormedFacts
<1>4. /\ Upto[l][n - 1] \in Seq(Text) /\ Upto[l][n] \in Seq(Text) /\ Contents[l2] \in Seq(Text)
      /\ Upto[l][n] = Upto[l][n - 1] \o Contents[l2]
      /\ Begins(Upto[l][n], Contents[l]) /\ Contents[l] \in Seq(Text) /\ Content \in Seq(Text)
      /\ Upto[l2][0] = <<>>
  <2>1. n \in 0..Len(At(l).items) /\ n - 1 \in 0..Len(At(l).items) /\ 0 \in 0..Top /\ Top \in 0..Top
    BY <1>2, Templates
  <2>2. \/ At(l).items[n] = "yield" /\ l2 = l - 1
        \/ At(l).items[n] = "partial" /\ l2 = 0
    <3>1. Called(more[k], more[k + 1])
      BY DEF Entered
    <3>2. more[k].next - 1 = n
      BY <1>2
    <3> QED BY <1>2, <3>1, <3>2 DEF Called
  <2>3. Upto[l][n] = Upto[l][n - 1] \o Contents[l2]
    <3>1. /\ At(l).items[n] = "yield" => Upto[l][n] = Upto[l][n - 1] \o Contents[l - 1]
          /\ At(l).items[n] = "partial" => Upto[l][n] = Upto[l][n - 1] \o Contents[0]
      BY <1>2, ContentFacts
    <3> QED BY <2>2, <3>1
  <2> QED BY <1>2, <2>1, <2>3, ContentFacts DEF Content
<1>5. /\ p \in [1..k + 1 -> Seq(Text)] /\ a \in [1..k -> Seq(Text)] /\ p[1] = s /\ a[1] = <<>>
      /\ \A i \in 1..k : p[i + 1] = IF Covered(stack, i) THEN p[i] ELSE p[i] \o buffers[out(i)]
      /\ \A i \in 1..k + 1 : IF i <= k /\ out(i) = 1 THEN p[i] = s ELSE Begins(s \o buffers[1], p[i])
      /\ \A i \in 1..k - 1 : a[i + 1] = a[i] \o Upto[stack[i].level][stack[i].next - 2]
      /\ \A i \in 1..k : Begins(a[i] \o Contents[stack[i].level], Content)
      /\ p[k + 1] = a[k] \o Upto[l][n - 1]
      /\ \A i \in 1..k : Apart(stack, i) => p[i] = a[i]
  BY <1>1 DEF Account
<1>6. /\ \A i \in 1..k : more[i].out = out(i) /\ more[i].level = stack[i].level
      /\ \A i \in 1..k - 1 : Covered(more, i) <=> Covered(stack, i)
      /\ Covered(more, k) <=> o2 = o
      /\ ~Covered(stack, k) /\ ~Covered(more, k + 1)
  <2>1. \A i \in 1..k : more[i].out = out(i) /\ more[i].level = stack[i].level
    BY <1>2
  <2>2. \A i \in 1..k - 1 : i \in 1..k /\ i + 1 \in 1..k /\ i < k /\ i < k + 1
    BY <1>2
  <2>3. \A i \in 1..k - 1 : Covered(more, i) <=> Covered(stack, i)
    BY <1>2, <2>1, <2>2 DEF Covered
  <2>4. k < k + 1 /\ ~(k < k) /\ ~(k + 1 < k + 1)
    BY <1>2
  <2> QED BY <1>2, <2>1, <2>3, <2>4 DEF Covered
<1> DEFINE q == [i \in 1..k + 2 |-> IF i = k + 2 THEN p[k + 1]
                                    ELSE IF i = k + 1 /\ o2 = o THEN p[k] ELSE p[i]]
           c == [i \in 1..k + 1 |-> IF i = k + 1 THEN p[k + 1] ELSE a[i]]
<1> HIDE DEF k, l, n, o, l2, o2
<1>7. /\ \A i \in 1..k + 1 : p[i] \in Seq(Text)
      /\ \A i \in 1..k : a[i] \in Seq(Text) /\ i \in 1..k + 1
      /\ k \in 1..k /\ k + 1 \in 1..k + 1 /\ k + 2 \in 1..k + 2 /\ k + 1 \in 1..k + 2
      /\ \A i \in 1..k + 1 : i # k + 1 => i \in 1..k
      /\ \A i \in 1..k : i # k + 1
      /\ a[k] \in Seq(Text)
  <2>1. k \in 1..k /\ k + 1 \in 1..k + 1 /\ k + 2 \in 1..k + 2 /\ k + 1 \in 1..k + 2
    BY <1>2
  <2>2. /\ \A i \in 1..k : i \in 1..k + 1 /\ i # k + 1
        /\ \A i \in 1..k + 1 : i # k + 1 => i \in 1..k
    BY <1>2
  <2>3. \A i \in 1..k + 1 : p[i] \in Seq(Text)
    BY <1>5
  <2>4. \A i \in 1..k : a[i] \in Seq(Text)
    BY <1>5
  <2> QED BY <2>1, <2>2, <2>3, <2>4
<1>8. /\ q \in [1..k + 2 -> Seq(Text)] /\ q[k + 2] = p[k + 1]
      /\ q[k + 1] = (IF o2 = o THEN p[k] ELSE p[k + 1])
      /\ \A i \in 1..k : q[i] = p[i]
  BY <1>2, <1>7
<1>9. /\ c \in [1..k + 1 -> Seq(Text)] /\ c[k + 1] = p[k + 1] /\ \A i \in 1..k : c[i] = a[i]
  BY <1>7
<1> HIDE DEF q, c
<1>10. ASSUME NEW i \in 1..k + 1
       PROVE  q[i + 1] = IF Covered(more, i) THEN q[i] ELSE q[i] \o b2[more[i].out]
  <2>1. CASE i = k + 1
    <3>1. more[i].out = o2 /\ q[i + 1] = p[k + 1] /\ ~Covered(more, i)
      BY <1>2, <1>6, <1>8, <2>1 DEF o2
    <3>2. CASE o2 = o
      <4>1. p[k + 1] = p[k] \o buffers[o] /\ b2[o] = buffers[o]
        BY <1>3, <1>5, <1>6, <1>7
      <4> QED BY <1>8, <2>1, <3>1, <3>2, <4>1
    <3>3. CASE o2 # o
      <4>1. b2[o2] = <<>> /\ p[k + 1] \o <<>> = p[k + 1]
        BY <1>3, <1>7, <3>3, ConcatEmptySeq
      <4> QED BY <1>8, <2>1, <3>1, <3>3, <4>1
    <3> QED BY <3>2, <3>3
  <2>2. CASE i = k
    <3>1. p[k + 1] = p[k] \o buffers[o] /\ b2[o] = buffers[o] /\ more[k].out = o
      BY <1>3, <1>5, <1>6, <1>7
    <3>2. q[k] = p[k]
      BY <1>7, <1>8
    <3> QED BY <1>6, <1>8, <2>2, <3>1, <3>2
  <2>3. CASE i # k /\ i # k + 1
    <3>1. i \in 1..k - 1 /\ i \in 1..k /\ i + 1 \in 1..k
      BY <1>2, <2>3
    <3>2. q[i + 1] = p[i + 1] /\ q[i] = p[i] /\ more[i].out = out(i)
      BY <1>6, <1>8, <3>1
    <3>3. p[i + 1] = IF Covered(stack, i) THEN p[i] ELSE p[i] \o buffers[out(i)]
      BY <1>5, <3>1
    <3>4. (Covered(more, i) <=> Covered(stack, i)) /\ b2[out(i)] = buffers[out(i)]
      BY <1>3, <1>6, <3>1
    <3> QED BY <3>2, <3>3, <3>4
  <2> QED BY <2>1, <2>2, <2>3
<1>11. ASSUME NEW i \in 1..k + 2
       PROVE  IF i <= k + 1 /\ more[i].out = 1 THEN q[i] = s ELSE Begins(s \o b2[1], q[i])
  <2>0. /\ Begins(s \o buffers[1], p[k + 1]) /\ b2[1] = buffers[1]
        /\ IF o = 1 THEN p[k] = s ELSE Begins(s \o buffers[1], p[k])
    <3>1. ~(k + 1 <= k) /\ k <= k
      BY <1>2
    <3> QED BY <1>3, <1>5, <1>7, <3>1
  <2>1. CASE i = k + 2
    <3>1. ~(i <= k + 1)
      BY <1>2, <2>1
    <3> QED BY <1>8, <2>0, <2>1, <3>1
  <2>2. CASE i = k + 1
    <3>1. more[i].out = o2 /\ i <= k + 1
      BY <1>2, <2>2 DEF o2
    <3>2. o2 = 1 => o2 = o
      BY <1>2, <1>3, <1>7
    <3> QED BY <1>8, <2>0, <2>2, <3>1, <3>2
  <2>3. CASE i # k + 1 /\ i # k + 2
    <3>1. i \in 1..k /\ i \in 1..k + 1 /\ i <= k /\ i <= k + 1
      BY <1>2, <2>3
    <3> QED BY <1>3, <1>5, <1>6, <1>8, <3>1
  <2> QED BY <2>1, <2>2, <2>3
<1>12. ASSUME NEW i \in 1..k
       PROVE  c[i + 1] = c[i] \o Upto[more[i].level][more[i].next - 2]
  <2>1. CASE i = k
    <3>1. more[k].next - 2 = n - 1
      BY <1>2, Templates
    <3> QED BY <1>2, <1>5, <1>7, <1>9, <2>1, <3>1
  <2>2. CASE i # k
    <3>1. i \in 1..k - 1 /\ i + 1 \in 1..k
      BY <1>2, <2>2
    <3> QED BY <1>2, <1>5, <1>9, <3>1
  <2> QED BY <2>1, <2>2
<1>13. ASSUME NEW i \in 1..k + 1
       PROVE  Begins(c[i] \o Contents[more[i].level], Content)
  <2>1. CASE i = k + 1
    <3>1. p[k + 1] \o Contents[l2] = a[k] \o Upto[l][n]
      <4>1. a[k] \in Seq(Text) /\ Upto[l][n - 1] \in Seq(Text) /\ Contents[l2] \in Seq(Text)
        BY <1>4, <1>7
      <4>2. (a[k] \o Upto[l][n - 1]) \o Contents[l2] = a[k] \o (Upto[l][n - 1] \o Contents[l2])
        BY <4>1, TextConcat
      <4> QED BY <1>4, <1>5, <4>2
    <3>2. Begins(a[k] \o Upto[l][n], a[k] \o Contents[l])
      BY <1>4, <1>7, BeginsFacts
    <3>3. Begins(a[k] \o Contents[l], Content)
      BY <1>2, <1>5, <1>6, <1>7
    <3>4. a[k] \o Upto[l][n] \in Seq(Text) /\ a[k] \o Contents[l] \in Seq(Text)
      BY <1>4, <1>7, ConcatProperties
    <3>5. Begins(a[k] \o Upto[l][n], Content)
      <4> DEFINE before == a[k] \o Upto[l][n]
                 with == a[k] \o Contents[l]
      <4>1. Begins(before, with) /\ Begins(with, Content)
            /\ before \in Seq(Text) /\ with \in Seq(Text) /\ Content \in Seq(Text)
        BY <1>4, <3>2, <3>3, <3>4
      <4> HIDE DEF before, with
      <4>2. Begins(before, Content)
        BY <4>1, BeginsFacts
      <4> QED BY <4>2 DEF before
    <3> QED BY <1>9, <2>1, <3>1, <3>5 DEF l2
  <2>2. CASE i # k + 1
    <3>1. i \in 1..k
      BY <1>2, <2>2
    <3> QED BY <1>5, <1>6, <1>9, <3>1
  <2> QED BY <2>1, <2>2
<1>14. q[k + 2] = c[k + 1] \o Upto[more[k + 1].level][more[k + 1].next - 1]
  <2>1. Upto[more[k + 1].level][more[k + 1].next - 1] = <<>>
    BY <1>2, <1>4, SMTT(30) DEF l2
  <2> QED BY <1>7, <1>8, <1>9, <2>1, ConcatEmptySeq
<1>15. q[1] = s /\ c[1] = <<>>
  <2>1. 1 \in 1..k
    BY <1>2
  <2> QED BY <1>5, <1>8, <1>9, <2>1
<1>16. Len(more) + 1 = k + 2 /\ Len(more) - 1 = k
  BY <1>2
<1>17. ASSUME NEW i \in 1..k + 1, Apart(more, i) PROVE q[i] = c[i]
  <2>1. CASE i = k + 1
    <3>1. i > 1 /\ i - 1 = k
      BY <1>2, <2>1
    <3>2. more[k].out # more[k + 1].out /\ more[k].out = o
      BY <1>2, <1>17, <2>1, <3>1 DEF Apart
    <3> QED BY <1>8, <1>9, <2>1, <3>2 DEF o2
  <2>2. CASE i # k + 1
    <3>1. i \in 1..k
      BY <1>7, <2>2
    <3>2. Apart(stack, i)
      BY <1>2, <1>6, <1>17, <3>1, ApartKept
    <3> QED BY <1>5, <1>8, <1>9, <3>1, <3>2
  <2> QED BY <2>1, <2>2
<1>18. Account(q, c, more, b2, s)
  BY <1>2, <1>8, <1>9, <1>10, <1>11, <1>12, <1>13, <1>14, <1>15, <1>16, <1>17 DEF Account
<1> QED BY <1>18 DEF Accounted

(* A template that ends has written all of its content, and the one below  *)
(* gets what is in the buffer, which it may share.                         *)
LEMMA ReturnAccount ==
  ASSUME doc \in Documents, NEW stack, NEW buffers, NEW s, NEW less, NEW b2,
         WellFormed(stack, buffers), Accounted(stack, buffers, s), Len(stack) > 1,
         Len(less) = Len(stack) - 1, \A i \in 1..Len(stack) - 1 : less[i] = stack[i],
         stack[Len(stack)].next > Len(At(stack[Len(stack)].level).items),
         b2 = [[buffers EXCEPT ![stack[Len(stack)].out] = <<>>]
                 EXCEPT ![stack[Len(stack) - 1].out] = @ \o buffers[stack[Len(stack)].out]]
  PROVE  Accounted(less, b2, s)
<1> DEFINE k == Len(stack)
           j == k - 1
           l == stack[k].level
           o == stack[k].out
           oj == stack[j].out
           out(i) == stack[i].out
<1>1. PICK p, a : Account(p, a, stack, buffers, s)
  BY DEF Accounted
<1>2. /\ k \in Nat \ {0} /\ j \in 1..k /\ k \in 1..k /\ l \in 0..Top
      /\ Len(less) = j /\ \A i \in 1..j : less[i] = stack[i] /\ i \in 1..k
      /\ stack[k].next - 1 = Len(At(l).items)
  <2>1. k \in Nat \ {0} /\ stack[k].next \in Nat \ {0}
    BY WellFormedFacts
  <2>2. k \in 1..k /\ j \in 1..k /\ \A i \in 1..j : i \in 1..k
    BY <2>1
  <2>3. l \in 0..Top /\ Len(At(l).items) \in Nat /\ stack[k].next <= Len(At(l).items) + 1
    <3>1. l \in 0..Top /\ stack[k].next \in 1..Len(At(l).items) + 1
      BY <2>2 DEF WellFormed
    <3> QED BY <3>1, Templates
  <2>4. stack[k].next - 1 = Len(At(l).items) /\ Len(less) = j /\ \A i \in 1..j : less[i] = stack[i]
    BY <2>1, <2>3
  <2> QED BY <2>1, <2>2, <2>3, <2>4
<1>3. /\ buffers[1] \in Seq(Text) /\ 1 \in DOMAIN buffers
      /\ \A i \in 1..k : out(i) \in Nat \ {0} /\ out(i) \in DOMAIN buffers /\ buffers[out(i)] \in Seq(Text)
      /\ out(k) = o /\ out(j) = oj /\ oj <= o
      /\ \A i, h \in 1..k : i <= h => out(i) <= out(h)
  <2>1. \A i, h \in 1..k : i <= h => out(i) <= out(h)
    BY <1>2 DEF WellFormed
  <2>2. j <= k
    BY <1>2
  <2> QED BY <1>2, <2>1, <2>2, WellFormedFacts
<1>4. /\ p \in [1..k + 1 -> Seq(Text)] /\ a \in [1..k -> Seq(Text)] /\ p[1] = s /\ a[1] = <<>>
      /\ \A i \in 1..k : p[i + 1] = IF Covered(stack, i) THEN p[i] ELSE p[i] \o buffers[out(i)]
      /\ \A i \in 1..k + 1 : IF i <= k /\ out(i) = 1 THEN p[i] = s ELSE Begins(s \o buffers[1], p[i])
      /\ \A i \in 1..j : a[i + 1] = a[i] \o Upto[stack[i].level][stack[i].next - 2]
      /\ \A i \in 1..k : Begins(a[i] \o Contents[stack[i].level], Content)
      /\ p[k + 1] = a[k] \o Upto[l][stack[k].next - 1]
      /\ \A i \in 1..k : Apart(stack, i) => p[i] = a[i]
  BY <1>1 DEF Account
<1>5. /\ Upto[l][stack[k].next - 1] = Contents[l] /\ Contents[l] \in Seq(Text)
  BY <1>2, ContentFacts
<1>6. /\ stack[j].level \in 0..Top
      /\ Upto[stack[j].level][stack[j].next - 2] \in Seq(Text)
      /\ Upto[stack[j].level][stack[j].next - 1] = Upto[stack[j].level][stack[j].next - 2] \o Contents[l]
  <2>1. /\ stack[j].level \in 0..Top /\ stack[j].next \in 1..Len(At(stack[j].level).items) + 1
        /\ Called(stack[j], stack[j + 1]) /\ j + 1 = k
    <3>1. j \in 1..k - 1 /\ j + 1 = k
      BY <1>2
    <3>2. \A i \in 1..k - 1 : Called(stack[i], stack[i + 1])
      BY DEF WellFormed
    <3>3. stack[j].level \in 0..Top /\ stack[j].next \in 1..Len(At(stack[j].level).items) + 1
      BY <1>2 DEF WellFormed
    <3> QED BY <3>1, <3>2, <3>3
  <2> DEFINE m == stack[j].level
             n == stack[j].next - 1
  <2>2. /\ n \in 1..Len(At(m).items) /\ n - 1 \in 0..Len(At(m).items) /\ n - 1 = stack[j].next - 2
        /\ \/ At(m).items[n] = "yield" /\ l = m - 1
           \/ At(m).items[n] = "partial" /\ l = 0
    <3>1. stack[j].next >= 2 /\ stack[j].next \in Nat /\ Len(At(m).items) \in Nat
      BY <1>2, <1>3, <2>1, Templates, WellFormedFacts DEF Called
    <3>2. /\ n \in 1..Len(At(m).items) /\ n - 1 \in 0..Len(At(m).items) /\ n - 1 = stack[j].next - 2
      <4>1. \A x, y \in Nat : x \in 1..y + 1 /\ x >= 2 =>
               x - 1 \in 1..y /\ (x - 1) - 1 \in 0..y /\ (x - 1) - 1 = x - 2
        OBVIOUS
      <4> QED BY <2>1, <3>1, <4>1
    <3>3. \/ At(m).items[n] = "yield" /\ l = m - 1
          \/ At(m).items[n] = "partial" /\ l = 0
      BY <2>1 DEF Called
    <3> QED BY <3>2, <3>3
  <2>3. Upto[m][n] = Upto[m][n - 1] \o Contents[l] /\ Upto[m][n - 1] \in Seq(Text)
    <3>1. /\ At(m).items[n] = "yield" => Upto[m][n] = Upto[m][n - 1] \o Contents[m - 1]
          /\ At(m).items[n] = "partial" => Upto[m][n] = Upto[m][n - 1] \o Contents[0]
          /\ Upto[m][n - 1] \in Seq(Text)
      BY <2>1, <2>2, ContentFacts
    <3> QED BY <2>2, <3>1
  <2> QED BY <2>1, <2>2, <2>3
<1>7. \A i \in 1..k + 1 : p[i] \in Seq(Text)
  BY <1>4
<1>8. /\ Covered(stack, j) <=> oj = o
      /\ ~Covered(stack, k) /\ ~Covered(less, j)
      /\ \A i \in 1..j - 1 : Covered(less, i) <=> Covered(stack, i)
  <2>1. j < k /\ j + 1 = k /\ ~(k < k) /\ ~(j < j)
    BY <1>2
  <2>2. \A i \in 1..j - 1 : i \in 1..j /\ i + 1 \in 1..j /\ i < j /\ i < k
    BY <1>2
  <2> QED BY <1>2, <2>1, <2>2 DEF Covered
<1>9. /\ b2[oj] = IF oj = o THEN buffers[o] ELSE buffers[oj] \o buffers[o]
      /\ \A b \in DOMAIN buffers : b # o /\ b # oj => b2[b] = buffers[b]
  <2> DEFINE b1 == [buffers EXCEPT ![o] = <<>>]
  <2>1. DOMAIN b1 = DOMAIN buffers /\ b1[o] = <<>> /\ \A b \in DOMAIN buffers : b # o => b1[b] = buffers[b]
    BY <1>3, <1>2
  <2> HIDE DEF b1
  <2>2. b2 = [b1 EXCEPT ![oj] = b1[oj] \o buffers[o]]
    BY DEF b1
  <2>3. oj \in DOMAIN b1 /\ <<>> \o buffers[o] = buffers[o]
    <3>1. buffers[o] \in Seq(Text)
      BY <1>2, <1>3
    <3> QED BY <1>2, <1>3, <2>1, <3>1, ConcatEmptySeq
  <2> QED BY <2>1, <2>2, <2>3
<1> DEFINE q == [i \in 1..k |-> IF i = k THEN p[k + 1] ELSE p[i]]
           c == [i \in 1..j |-> a[i]]
<1> HIDE DEF k, l, o, oj
<1>10. /\ k + 1 \in 1..k + 1 /\ j + 1 = k /\ j - 1 + 1 = j /\ k = k - 1 + 1
       /\ \A i \in 1..j : i \in 1..k /\ i # k /\ i \in 1..k + 1
       /\ \A i \in 1..k : i \in 1..k + 1
  <2>1. k \in Nat /\ k >= 1
    BY <1>2
  <2>2. \A x \in Nat : x >= 1 => /\ x + 1 \in 1..x + 1 /\ (x - 1) + 1 = x /\ (x - 1) - 1 + 1 = x - 1
                                 /\ \A i \in 1..x - 1 : i \in 1..x /\ i # x /\ i \in 1..x + 1
                                 /\ \A i \in 1..x : i \in 1..x + 1
    OBVIOUS
  <2> QED BY <2>1, <2>2
<1> HIDE DEF j
<1>11. /\ q \in [1..k -> Seq(Text)] /\ q[k] = p[k + 1]
       /\ \A i \in 1..j : q[i] = p[i]
  BY <1>2, <1>7, <1>10
<1>12. /\ c \in [1..j -> Seq(Text)] /\ \A i \in 1..j : c[i] = a[i] /\ a[i] \in Seq(Text)
  BY <1>2, <1>4
<1> HIDE DEF q, c
<1>13. p[k + 1] = IF oj = o THEN p[j] \o buffers[o] ELSE p[j] \o (buffers[oj] \o buffers[o])
  <2>1. p[k + 1] = p[k] \o buffers[o]
    BY <1>2, <1>3, <1>4, <1>8
  <2>2. p[k] = IF oj = o THEN p[j] ELSE p[j] \o buffers[oj]
    BY <1>2, <1>3, <1>4, <1>8, <1>10
  <2>3. p[j] \in Seq(Text) /\ buffers[oj] \in Seq(Text) /\ buffers[o] \in Seq(Text)
    <3>1. j \in 1..k + 1
      BY <1>2, <1>10
    <3> QED BY <1>2, <1>3, <1>7, <3>1
  <2>4. (p[j] \o buffers[oj]) \o buffers[o] = p[j] \o (buffers[oj] \o buffers[o])
    BY <2>3, TextConcat
  <2> QED BY <2>1, <2>2, <2>4
<1>14. less[j].out = oj /\ q[k] = q[j] \o b2[oj]
  <2>1. j \in 1..j
    BY <1>2
  <2>2. less[j] = stack[j]
    BY <1>2, <2>1
  <2> QED BY <1>9, <1>11, <1>13, <2>1, <2>2 DEF oj
<1>15. ASSUME NEW i \in 1..j
       PROVE  q[i + 1] = IF Covered(less, i) THEN q[i] ELSE q[i] \o b2[less[i].out]
  <2>1. CASE i = j
    BY <1>8, <1>10, <1>14, <2>1
  <2>2. CASE i # j
    <3>1. i \in 1..j - 1 /\ i + 1 \in 1..j /\ i \in 1..k /\ i + 1 \in 1..k
      BY <1>2, <2>2
    <3>2. less[i].out = out(i) /\ q[i + 1] = p[i + 1] /\ q[i] = p[i]
      BY <1>2, <1>11, <3>1
    <3>3. ASSUME ~Covered(stack, i) PROVE b2[out(i)] = buffers[out(i)]
      <4>1. i < k /\ i <= i + 1 /\ i + 1 <= j
        BY <1>2, <3>1
      <4>2. out(i) # out(i + 1)
        BY <3>3, <4>1 DEF Covered, k
      <4>3. out(i) <= out(i + 1) /\ out(i + 1) <= out(j)
        BY <1>2, <1>3, <3>1, <4>1
      <4>4. /\ out(i) \in Nat /\ out(i + 1) \in Nat /\ oj \in Nat /\ o \in Nat
            /\ out(i) \in DOMAIN buffers /\ oj <= o /\ out(j) = oj
        BY <1>2, <1>3, <3>1
      <4>5. out(i) # oj /\ out(i) # o
        BY <4>2, <4>3, <4>4, SMTT(30)
      <4> QED BY <1>9, <4>4, <4>5
    <3>4. p[i + 1] = IF Covered(stack, i) THEN p[i] ELSE p[i] \o buffers[out(i)]
      BY <1>4, <3>1
    <3>5. Covered(less, i) <=> Covered(stack, i)
      BY <1>8, <3>1
    <3> QED BY <3>2, <3>3, <3>4, <3>5
  <2> QED BY <2>1, <2>2
<1>16. ASSUME NEW i \in 1..j + 1
       PROVE  IF i <= j /\ less[i].out = 1 THEN q[i] = s ELSE Begins(s \o b2[1], q[i])
  <2>1. CASE i <= j
    <3>1. i \in 1..j /\ i \in 1..k /\ i \in 1..k + 1 /\ i <= k
      BY <1>2, <2>1
    <3>2. less[i].out = out(i) /\ q[i] = p[i]
      BY <1>2, <1>11, <3>1
    <3>3. ASSUME out(i) # 1 PROVE b2[1] = buffers[1]
      <4>1. out(i) <= out(j)
        BY <1>2, <1>3, <2>1, <3>1
      <4>2. oj # 1 /\ o # 1
        BY <1>2, <1>3, <3>1, <3>3, <4>1, SMTT(30)
      <4> QED BY <1>3, <1>9, <4>2
    <3> QED BY <1>4, <2>1, <3>1, <3>2, <3>3
  <2>2. CASE i = k
    <3>1. ~(i <= j)
      BY <1>2, <1>10, <2>2
    <3>2. CASE oj = 1
      <4>1. q[j] = s
        <5>1. j \in 1..j /\ j \in 1..k + 1 /\ j <= k
          BY <1>2, <1>10
        <5> QED BY <1>3, <1>4, <1>11, <3>2, <5>1
      <4>2. q[k] = s \o b2[1]
        BY <1>14, <3>2, <4>1
      <4>3. q[k] \in Seq(Text)
        BY <1>2, <1>11
      <4>4. Begins(s \o b2[1], q[k])
        BY <4>2, <4>3, BeginsFacts
      <4> QED BY <2>2, <3>1, <4>4
    <3>3. CASE oj # 1
      <4>1. o # 1
        <5>1. oj \in Nat \ {0} /\ o \in Nat /\ oj <= o
          BY <1>2, <1>3
        <5> QED BY <3>3, <5>1
      <4>2. b2[1] = buffers[1]
        BY <1>3, <1>9, <3>3, <4>1
      <4>3. ~(k + 1 <= k)
        BY <1>2
      <4>4. Begins(s \o buffers[1], p[k + 1])
        BY <1>4, <1>10, <4>3
      <4> QED BY <1>11, <2>2, <3>1, <4>2, <4>4
    <3> QED BY <3>2, <3>3
  <2>3. i <= j \/ i = k
    BY <1>2, <1>10
  <2> QED BY <2>1, <2>2, <2>3
<1>17. ASSUME NEW i \in 1..j - 1
       PROVE  c[i + 1] = c[i] \o Upto[less[i].level][less[i].next - 2]
  <2>1. i \in 1..j /\ i + 1 \in 1..j
    BY <1>2
  <2> QED BY <1>2, <1>4, <1>12, <2>1
<1>18. \A i \in 1..j : Begins(c[i] \o Contents[less[i].level], Content)
  BY <1>2, <1>4, <1>12
<1>19. q[k] = c[j] \o Upto[less[j].level][less[j].next - 1]
  <2>1. j \in 1..j
    BY <1>2
  <2>2. a[k] = a[j] \o Upto[stack[j].level][stack[j].next - 2] /\ a[j] \in Seq(Text)
    BY <1>4, <1>10, <1>12, <2>1
  <2>3. p[k + 1] = a[k] \o Contents[l]
    BY <1>4, <1>5
  <2>4. p[k + 1] = a[j] \o Upto[stack[j].level][stack[j].next - 1]
    <3> DEFINE before == Upto[stack[j].level][stack[j].next - 2]
    <3>1. a[j] \in Seq(Text) /\ before \in Seq(Text) /\ Contents[l] \in Seq(Text)
      BY <1>5, <1>6, <2>2
    <3> HIDE DEF before
    <3>2. (a[j] \o before) \o Contents[l] = a[j] \o (before \o Contents[l])
      BY <3>1, TextConcat
    <3> QED BY <1>6, <2>2, <2>3, <3>2 DEF before
  <2>5. less[j] = stack[j]
    BY <1>2, <2>1
  <2> QED BY <1>11, <1>12, <2>1, <2>4, <2>5
<1>20. q[1] = s /\ c[1] = <<>>
  <2>1. 1 \in 1..j
    BY <1>2
  <2> QED BY <1>4, <1>11, <1>12, <2>1
<1>21. ASSUME NEW i \in 1..j, Apart(less, i) PROVE q[i] = c[i]
  <2>1. Apart(stack, i)
    <3>1. j \in Nat /\ \A h \in 1..j : less[h].out = stack[h].out
      BY <1>2
    <3>2. \A h \in 1..j : Apart(less, h) <=> Apart(stack, h)
      BY <3>1, ApartKept
    <3> QED BY <1>21, <3>2
  <2> QED BY <1>4, <1>10, <1>11, <1>12, <2>1
<1>22. Account(q, c, less, b2, s)
  BY <1>2, <1>10, <1>11, <1>12, <1>15, <1>16, <1>17, <1>18, <1>19, <1>20, <1>21 DEF Account
<1> QED BY <1>22 DEF Accounted

(* A document begins with nothing written.                                 *)
LEMMA BeginAccount ==
  ASSUME doc \in Documents, NEW stack, NEW buffers,
         WellFormed(stack, buffers), Len(stack) = 1, stack[1].level = Top, stack[1].next = 1,
         buffers[stack[1].out] = <<>>, buffers[1] = <<>>
  PROVE  Accounted(stack, buffers, <<>>)
<1> DEFINE p == [i \in 1..2 |-> <<>>]
           a == [i \in 1..1 |-> <<>>]
<1>1. /\ <<>> \in Seq(Text) /\ <<>> \o <<>> = <<>>
  BY ConcatEmptySeq
<1>2. p \in [1..2 -> Seq(Text)] /\ p[1] = <<>> /\ p[2] = <<>> /\ a \in [1..1 -> Seq(Text)] /\ a[1] = <<>>
  BY <1>1
<1> HIDE DEF p, a
<1>3. Begins(<<>>, <<>>)
  BY <1>1, BeginsFacts
<1>4. Top \in 0..Top /\ Content \in Seq(Text) /\ Content = Contents[Top] /\ Upto[Top][0] = <<>>
  <2>1. Top \in 0..Top
    BY Templates
  <2> QED BY <2>1, ContentFacts DEF Content
<1>5. <<>> \o Contents[Top] = Content /\ Begins(Content, Content)
  BY <1>4, ConcatEmptySeq, BeginsFacts
<1>6. \A i \in 1..2 : i <= 1 => i = 1
  OBVIOUS
<1>7. \A i \in 1..2 : p[i] = <<>>
  BY <1>2
<1>8. p[2] = a[1] \o Upto[Top][0]
  BY <1>1, <1>2, <1>4
<1>9. /\ \A i \in 1..1 : p[i + 1] = IF Covered(stack, i) THEN p[i] ELSE p[i] \o buffers[stack[i].out]
      /\ \A i \in 1..2 : IF i <= 1 /\ stack[i].out = 1 THEN p[i] = <<>> ELSE Begins(<<>> \o buffers[1], p[i])
      /\ \A i \in 1..0 : a[i + 1] = a[i] \o Upto[stack[i].level][stack[i].next - 2]
      /\ \A i \in 1..1 : Begins(a[i] \o Contents[stack[i].level], Content)
  <2>1. \A i \in 1..1 : i = 1
    OBVIOUS
  <2>2. p[1 + 1] = IF Covered(stack, 1) THEN p[1] ELSE p[1] \o buffers[stack[1].out]
    BY <1>1, <1>2
  <2>3. \A i \in 1..2 : Begins(<<>> \o buffers[1], p[i])
    BY <1>1, <1>3, <1>7
  <2>4. Begins(a[1] \o Contents[stack[1].level], Content)
    BY <1>2, <1>5
  <2>5. \A i \in 1..1 : p[i + 1] = IF Covered(stack, i) THEN p[i] ELSE p[i] \o buffers[stack[i].out]
    BY <2>1, <2>2
  <2>6. \A i \in 1..1 : Begins(a[i] \o Contents[stack[i].level], Content)
    BY <2>1, <2>4
  <2>7. \A i \in 1..2 : IF i <= 1 /\ stack[i].out = 1 THEN p[i] = <<>> ELSE Begins(<<>> \o buffers[1], p[i])
    BY <1>7, <2>3
  <2>8. \A i \in 1..0 : a[i + 1] = a[i] \o Upto[stack[i].level][stack[i].next - 2]
    OBVIOUS
  <2> QED BY <2>5, <2>6, <2>7, <2>8
<1>10. \A i \in 1..1 : p[i] = a[i]
  BY <1>2
<1>11. Account(p, a, stack, buffers, <<>>)
  BY <1>2, <1>8, <1>9, <1>10 DEF Account
<1> QED BY <1>11 DEF Accounted

(* What was sent and what the last template returns are the document, and  *)
(* what was sent always begins it.                                         *)
LEMMA AccountedFacts ==
  ASSUME doc \in Documents, NEW stack, NEW buffers, NEW s,
         WellFormed(stack, buffers), Accounted(stack, buffers, s), stack[1].level = Top
  PROVE  /\ IsPrefix(s, Content)
         /\ Len(stack) = 1 /\ stack[1].next > Len(At(Top).items) => s \o buffers[stack[1].out] = Content
<1> DEFINE k == Len(stack)
           l == stack[k].level
           n == stack[k].next
<1>1. PICK p, a : Account(p, a, stack, buffers, s)
  BY DEF Accounted
<1>2. /\ k \in Nat \ {0} /\ l \in 0..Top /\ n - 1 \in 0..Len(At(l).items) /\ n <= Len(At(l).items) + 1
      /\ n \in Nat /\ Len(At(l).items) \in Nat
  <2>1. k \in Nat \ {0} /\ n \in Nat \ {0}
    BY WellFormedFacts
  <2>2. l \in 0..Top /\ n \in 1..Len(At(l).items) + 1
    BY <2>1 DEF WellFormed
  <2>3. Len(At(l).items) \in Nat
    BY <2>2, Templates
  <2> QED BY <2>1, <2>2, <2>3
<1>3. /\ Upto[l][n - 1] \in Seq(Text) /\ Begins(Upto[l][n - 1], Contents[l]) /\ Contents[l] \in Seq(Text)
      /\ Upto[l][Len(At(l).items)] = Contents[l] /\ Content \in Seq(Text)
  <2>1. Top \in 0..Top
    BY Templates
  <2> QED BY <1>2, <2>1, ContentFacts DEF Content
<1>4. /\ p \in [1..k + 1 -> Seq(Text)] /\ a \in [1..k -> Seq(Text)] /\ p[1] = s /\ a[1] = <<>>
      /\ \A i \in 1..k : p[i + 1] = IF Covered(stack, i) THEN p[i] ELSE p[i] \o buffers[stack[i].out]
      /\ \A i \in 1..k + 1 : IF i <= k /\ stack[i].out = 1 THEN p[i] = s ELSE Begins(s \o buffers[1], p[i])
      /\ \A i \in 1..k : Begins(a[i] \o Contents[stack[i].level], Content)
      /\ p[k + 1] = a[k] \o Upto[l][n - 1]
  BY <1>1 DEF Account
<1>5. buffers[1] \in Seq(Text) /\ s \in Seq(Text) /\ p[k + 1] \in Seq(Text) /\ a[k] \in Seq(Text)
  <2>1. 1 \in 1..k + 1 /\ k + 1 \in 1..k + 1 /\ k \in 1..k
    BY <1>2
  <2>2. p[1] \in Seq(Text) /\ p[k + 1] \in Seq(Text) /\ a[k] \in Seq(Text)
    BY <1>4, <2>1
  <2> QED BY <1>4, <2>2, WellFormedFacts
<1> HIDE DEF k, l, n
<1>6. Begins(s, Content)
  <2>1. k + 1 \in 1..k + 1 /\ ~(k + 1 <= k) /\ k \in 1..k
    BY <1>2
  <2>2. Begins(s \o buffers[1], p[k + 1])
    BY <1>4, <2>1
  <2>3. Begins(s, s \o buffers[1]) /\ s \o buffers[1] \in Seq(Text)
    BY <1>5, BeginsFacts, ConcatProperties
  <2>4. Begins(s, p[k + 1])
    BY <1>5, <2>2, <2>3, BeginsTransitive
  <2>5. Begins(p[k + 1], a[k] \o Contents[l]) /\ a[k] \o Contents[l] \in Seq(Text)
    BY <1>3, <1>4, <1>5, BeginsFacts, ConcatProperties
  <2>6. Begins(a[k] \o Contents[l], Content)
    BY <1>4, <2>1 DEF l
  <2>7. Begins(p[k + 1], Content)
    BY <1>3, <1>5, <2>5, <2>6, BeginsTransitive
  <2> QED BY <1>3, <1>5, <2>4, <2>7, BeginsTransitive
<1>7. IsPrefix(s, Content)
  BY <1>3, <1>5, <1>6, BeginsFacts
<1>8. ASSUME k = 1, stack[1].next > Len(At(Top).items)
      PROVE  s \o buffers[stack[1].out] = Content
  <2>1. l = Top /\ n = stack[1].next
    BY <1>8 DEF l, n
  <2>2. n - 1 = Len(At(l).items)
    BY <1>2, <1>8, <2>1
  <2>3. p[2] = <<>> \o Contents[Top]
    <3>1. Upto[l][n - 1] = Contents[Top]
      BY <1>3, <2>1, <2>2
    <3>2. p[k + 1] = p[2] /\ a[k] = <<>>
      BY <1>4, <1>8
    <3> QED BY <1>4, <3>1, <3>2
  <2>4. p[2] = Content
    BY <1>3, <2>1, <2>3, ConcatEmptySeq DEF Content
  <2>5. ~Covered(stack, 1)
    BY <1>8 DEF Covered, k
  <2>6. p[1 + 1] = p[1] \o buffers[stack[1].out]
    <3>1. 1 \in 1..k
      BY <1>8
    <3> QED BY <1>4, <2>5, <3>1
  <2> QED BY <1>4, <2>4, <2>6
<1> QED BY <1>7, <1>8 DEF k

-----------------------------------------------------------------------------
(* The stream                                                              *)

(* A document does not change, so neither does what is said of it.         *)
LEMMA Undisturbed ==
  ASSUME doc' = doc
  PROVE  /\ Top' = Top /\ Content' = Content /\ Contents' = Contents /\ Allowed' = Allowed
         /\ Upto' = Upto /\ \A l : At(l)' = At(l)
<1>1. Top' = Top /\ Allowed' = Allowed
  BY DEF Top, Allowed
<1>2. \A l : At(l)' = At(l)
  BY DEF At
<1>3. Contents' = Contents
  BY DEF Contents, At, Top
<1>4. \A l : Unfolding(l)' = Unfolding(l)
  BY <1>2, <1>3 DEF Unfolding, Unfolds, Piece
<1>5. Upto' = Upto
  BY <1>1, <1>4 DEF Upto
<1> QED BY <1>1, <1>2, <1>3, <1>5 DEF Content

(* What is sent of the running templates is what they have written.        *)
Told ==
  frames # <<>> => /\ WellFormed(frames, bufs) /\ frames[1].level = Top
                   /\ Accounted(frames, bufs, sent)

LEMMA ToldKept ==
  ASSUME doc' = doc,
         frames' # <<>> => /\ WellFormed(frames', bufs') /\ frames'[1].level = Top
                           /\ Accounted(frames', bufs', sent')
  PROVE  Told'
<1> SUFFICES ASSUME frames' # <<>>
             PROVE  WellFormed(frames, bufs)' /\ frames'[1].level = Top' /\ Accounted(frames, bufs, sent)'
  BY DEF Told
<1>1. PICK p, a : Account(p, a, frames', bufs', sent')
  BY DEF Accounted
<1>2. Account(p, a, frames, bufs, sent)'
  <2>1. Upto' = Upto /\ Contents' = Contents /\ Content' = Content
    BY Undisturbed
  <2> QED BY <1>1, <2>1 DEF Account, Covered, Apart, Begins
<1>3. WellFormed(frames, bufs)'
  BY DEF WellFormed, Called, Buffered, Top, At
<1> QED BY <1>2, <1>3, Undisturbed DEF Accounted

(* The phases of the view and its fiber; the action goes on when the       *)
(* stream's own buffer is flushed.                                         *)
Control ==
  /\ phase \in {"new", "refused"} => fiber = "new"
  /\ phase \notin {"new", "refused"} => Allowed
  /\ fiber = "live" <=> frames # <<>>
  /\ fiber = "new" => sent = <<>>
  /\ watch = "asleep" => phase \in {"resume", "end", "render"} /\ frames # <<>>
  /\ phase = "action" => bufs[1] = <<>>

(* The current buffer, the stream's own and those that views had before    *)
(* their partials are empty, unless a running template writes to them.     *)
SharedBy(stack, buffers, current) ==
  /\ \A i \in 1..Len(stack) : stack[i].level >= 2 => stack[i].out <= current
  /\ buffers[current] = <<>> \/ \E i \in 1..Len(stack) : stack[i].out = current
  /\ buffers[1] = <<>> \/ (stack # <<>> /\ stack[1].out = 1)
  /\ \A i \in 1..Len(stack) : stack[i].back # 0 =>
       /\ buffers[stack[i].back] = <<>> /\ stack[i].back < stack[i].out
       /\ \A j \in 1..i - 1 : stack[j].out < stack[i].back
Shared == SharedBy(frames, bufs, cur)

(* A document that was rendered to its end.                                *)
Ended ==
  /\ fiber = "ended" /\ phase # "closed" => sent \o rest = Content
  /\ phase = "closed" => sent = Content /\ fiber = "ended"

OrderInv == TypeOK /\ Control /\ Told /\ Shared /\ Ended

LEMMA OrderInit == Init => OrderInv
<1> SUFFICES ASSUME Init PROVE OrderInv
  OBVIOUS
<1>1. Len(<<>>) = 0 /\ 1..0 = {} /\ bufs[1] = <<>> /\ frames = <<>> /\ cur = 1 /\ sent = <<>>
      /\ phase = "new" /\ fiber = "new" /\ watch = "registered"
  BY DEF Init
<1>2. Shared
  BY <1>1 DEF Shared, SharedBy
<1>3. Control /\ Told /\ Ended
  BY <1>1 DEF Control, Told, Ended
<1> QED BY <1>2, <1>3, ViewInitType DEF OrderInv

(* What a step of a running or sleeping template can use.                  *)
Begun == phase \in {"resume", "end", "render"} /\ frames # <<>>

LEMMA RunningFacts ==
  ASSUME OrderInv, Begun
  PROVE  /\ doc \in Documents /\ WellFormed(frames, bufs) /\ frames[1].level = Top
         /\ Accounted(frames, bufs, sent) /\ SharedBy(frames, bufs, cur)
         /\ fiber = "live" /\ Allowed /\ frames # <<>> /\ frames \in Seq(Frame)
         /\ Len(frames) \in Nat \ {0} /\ Len(frames) \in 1..Len(frames)
         /\ Frm = frames[Len(frames)] /\ Frm \in Frame
<1>1. frames # <<>> /\ phase \in {"resume", "end", "render"}
  BY DEF Begun
<1>2. Len(frames) \in Nat \ {0} /\ Frm = frames[Len(frames)] /\ Frm \in Frame
  BY <1>1, TopFrame DEF OrderInv
<1>3. Len(frames) \in 1..Len(frames)
  BY <1>2
<1>4. fiber = "live" /\ Allowed
  BY <1>1 DEF OrderInv, Control
<1>5. doc \in Documents /\ frames \in Seq(Frame)
  BY DEF OrderInv, TypeOK
<1> QED BY <1>1, <1>2, <1>3, <1>4, <1>5 DEF OrderInv, Told, Shared

(* And what it has to show.                                                *)
LEMMA RunningKeeps ==
  ASSUME OrderInv, Begun, TypeOK', doc' = doc, fiber' = fiber, frames' # <<>>,
         phase' \in {"action", "resume", "end", "render", "cut", "failed"},
         watch' = "asleep" => phase' \in {"resume", "end", "render"},
         phase' = "action" => bufs'[1] = <<>>,
         WellFormed(frames', bufs'), frames'[1].level = Top, Accounted(frames', bufs', sent'),
         SharedBy(frames', bufs', cur')
  PROVE  OrderInv'
<1>1. fiber' = "live" /\ Allowed'
  BY RunningFacts, Undisturbed
<1>2. Control'
  BY <1>1 DEF Control
<1>3. Told'
  BY ToldKept
<1>4. Shared'
  BY DEF Shared, SharedBy
<1>5. Ended'
  BY <1>1 DEF Ended
<1> QED BY <1>2, <1>3, <1>4, <1>5 DEF OrderInv

(* The stack of a template that goes on.                                   *)
LEMMA AdvancedFurther ==
  ASSUME TypeOK, frames # <<>>
  PROVE  /\ Further(frames, Advanced) /\ Advanced[Len(frames)].back = frames[Len(frames)].back
         /\ Advanced \in Seq(Frame) /\ Len(Advanced) = Len(frames)
<1> DEFINE n == Len(frames)
           top == [frames[n] EXCEPT !.next = @ + 1]
<1>1. n \in Nat \ {0} /\ frames[n] \in Frame /\ frames \in Seq(Frame) /\ n \in 1..Len(frames)
  <2>1. n \in Nat \ {0} /\ Frm = frames[n] /\ Frm \in Frame
    BY TopFrame
  <2> QED BY <2>1 DEF TypeOK
<1>2. /\ top \in Frame /\ top.out = frames[n].out /\ top.back = frames[n].back
      /\ top.level = frames[n].level /\ top.next = frames[n].next + 1
  <2>1. [frames[n] EXCEPT !.next = @ + 1] \in Frame
    <3>1. frames[n] \in Frame
      BY <1>1
    <3> QED BY <3>1 DEF Frame
  <2>2. /\ top.out = frames[n].out /\ top.back = frames[n].back
        /\ top.level = frames[n].level /\ top.next = frames[n].next + 1
    BY <1>1 DEF Frame
  <2> QED BY <2>1, <2>2
<1>3. Advanced = [frames EXCEPT ![n] = top]
  BY DEF Advanced
<1> HIDE DEF top, n
<1>4. /\ Advanced \in Seq(Frame) /\ Len(Advanced) = Len(frames)
      /\ \A i \in 1..Len(frames) : Advanced[i] = IF i = n THEN top ELSE frames[i]
  BY <1>1, <1>2, <1>3, ExceptSeq
<1>5. Advanced[n] = top /\ \A i \in 1..n - 1 : Advanced[i] = frames[i]
  <2>1. n \in 1..Len(frames) /\ \A i \in 1..n - 1 : i \in 1..Len(frames) /\ i # n
    BY <1>1 DEF n
  <2> QED BY <1>4, <2>1
<1> QED BY <1>2, <1>4, <1>5 DEF Further, n

LEMMA FurtherWellFormed ==
  ASSUME doc \in Documents, NEW stack, NEW buffers, NEW more, NEW b2,
         WellFormed(stack, buffers), Further(stack, more),
         stack[Len(stack)].next <= Len(At(stack[Len(stack)].level).items),
         b2 \in Seq(Seq(Text)), Buffered(more, b2)
  PROVE  WellFormed(more, b2) /\ more[1].level = stack[1].level
<1> DEFINE k == Len(stack)
<1>1. k \in Nat \ {0} /\ Len(more) = k /\ stack[k].next \in Nat
      /\ \A i \in 1..k : i \in 1..k - 1 \/ i = k
  <2>1. k \in Nat \ {0}
    BY WellFormedFacts
  <2>2. k \in 1..k
    BY <2>1
  <2> QED BY <2>1, <2>2, WellFormedFacts DEF Further
<1> HIDE DEF k
<1>2. \A i \in 1..k : /\ stack[i].level \in 0..Top
                      /\ stack[i].next \in 1..Len(At(stack[i].level).items) + 1
  BY DEF WellFormed, k
<1>3. \A i \in 1..k - 1 : more[i] = stack[i]
  BY DEF Further, k
<1>4. more[k].level = stack[k].level /\ more[k].out = stack[k].out /\ more[k].next = stack[k].next + 1
  BY DEF Further, k
<1>5. more[k].next \in 1..Len(At(more[k].level).items) + 1
  <2>1. k \in 1..k
    BY <1>1
  <2>2. Len(At(stack[k].level).items) \in Nat /\ stack[k].next <= Len(At(stack[k].level).items)
    BY <1>2, <2>1, Templates DEF k
  <2>3. \A x, y \in Nat : x \in 1..y + 1 /\ x <= y => x + 1 \in 1..y + 1
    OBVIOUS
  <2> QED BY <1>1, <1>2, <1>4, <2>1, <2>2, <2>3
<1>6. ASSUME NEW i \in 1..k
      PROVE  /\ more[i].level \in 0..Top /\ more[i].level = stack[i].level /\ more[i].out = stack[i].out
             /\ more[i].next \in 1..Len(At(more[i].level).items) + 1
  BY <1>1, <1>2, <1>3, <1>4, <1>5
<1>7. ASSUME NEW i \in 1..k - 1 PROVE Called(more[i], more[i + 1])
  <2>1. Called(stack[i], stack[i + 1]) /\ i + 1 \in 1..k
    BY <1>1 DEF WellFormed, k
  <2> QED BY <1>3, <1>6, <2>1 DEF Called
<1>8. \A i, j \in 1..k : i <= j => more[i].out <= more[j].out
  <2>1. \A i, j \in 1..k : i <= j => stack[i].out <= stack[j].out
    BY DEF WellFormed, k
  <2> QED BY <1>6, <2>1
<1>9. more \in Seq(Frame) /\ more # <<>> /\ 1 \in 1..k
  BY <1>1 DEF Further
<1>10. \A i \in 1..k : more[i].level \in 0..Top /\ more[i].next \in 1..Len(At(more[i].level).items) + 1
  BY <1>6
<1>11. more[1].level = stack[1].level
  BY <1>6, <1>9
<1> QED BY <1>1, <1>7, <1>8, <1>9, <1>10, <1>11 DEF WellFormed

LEMMA FurtherShared ==
  ASSUME NEW stack, NEW buffers, NEW more, NEW b2, NEW c,
         WellFormed(stack, buffers), Further(stack, more), SharedBy(stack, buffers, c),
         more[Len(stack)].back = stack[Len(stack)].back,
         c \in 1..Len(buffers),
         \A x \in 1..Len(buffers) : buffers[x] = <<>> /\ x # stack[Len(stack)].out => b2[x] = <<>>
  PROVE  SharedBy(more, b2, c)
<1> DEFINE k == Len(stack)
           o == stack[k].out
<1>1. /\ k \in Nat \ {0} /\ Len(more) = k /\ k \in 1..k /\ 1 \in 1..k
      /\ \A i \in 1..k : i \in 1..k - 1 \/ i = k
      /\ \A i \in 1..k : i <= k /\ 1 <= i
  <2>1. k \in Nat \ {0}
    BY WellFormedFacts
  <2> QED BY <2>1 DEF Further
<1>2. /\ \A i \in 1..k : stack[i].out \in Nat \ {0} /\ stack[i].out <= o /\ stack[1].out <= stack[i].out
      /\ o \in Nat \ {0} /\ stack # <<>> /\ more # <<>>
  <2>1. \A i, j \in 1..k : i <= j => stack[i].out <= stack[j].out
    BY DEF WellFormed
  <2>2. more # <<>>
    BY <1>1 DEF Further
  <2> QED BY <1>1, <2>1, <2>2, WellFormedFacts DEF WellFormed
<1> HIDE DEF k, o
<1>3. \A i \in 1..k : /\ more[i].level = stack[i].level /\ more[i].out = stack[i].out
                      /\ more[i].back = stack[i].back
  BY <1>1 DEF Further, k
<1>4. /\ \A x \in 1..Len(buffers) : buffers[x] = <<>> /\ x # o => b2[x] = <<>>
      /\ 1 \in 1..Len(buffers)
      /\ \A i \in 1..k : stack[i].back \in 0..Len(buffers)
  <2>1. \A i \in 1..k : stack[i].back \in 0..Len(buffers)
    BY WellFormedFacts DEF WellFormed, Buffered, k
  <2> QED BY <2>1, WellFormedFacts DEF o, k
<1>5. \A i \in 1..k : more[i].level >= 2 => more[i].out <= c
  BY <1>3 DEF SharedBy, k
<1>6. b2[c] = <<>> \/ \E i \in 1..k : more[i].out = c
  <2>1. buffers[c] = <<>> \/ \E i \in 1..k : stack[i].out = c
    BY DEF SharedBy, k
  <2>2. CASE c = o
    BY <1>1, <1>3, <2>2 DEF o
  <2>3. CASE c # o
    BY <1>3, <1>4, <2>1, <2>3
  <2> QED BY <2>2, <2>3
<1>7. b2[1] = <<>> \/ (more # <<>> /\ more[1].out = 1)
  <2>1. buffers[1] = <<>> \/ stack[1].out = 1
    BY DEF SharedBy
  <2>2. CASE o = 1
    <3>1. stack[1].out = 1
      BY <1>1, <1>2, <2>2
    <3> QED BY <1>1, <1>2, <1>3, <3>1
  <2>3. CASE o # 1
    BY <1>1, <1>2, <1>3, <1>4, <2>1, <2>3
  <2> QED BY <2>2, <2>3
<1>8. ASSUME NEW i \in 1..k, more[i].back # 0
      PROVE  /\ b2[more[i].back] = <<>> /\ more[i].back < more[i].out
             /\ \A j \in 1..i - 1 : more[j].out < more[i].back
  <2>1. /\ buffers[stack[i].back] = <<>> /\ stack[i].back < stack[i].out
        /\ \A j \in 1..i - 1 : stack[j].out < stack[i].back
    BY <1>3, <1>8 DEF SharedBy, k
  <2>2. stack[i].back # o
    <3>1. stack[i].back \in Nat /\ stack[i].out \in Nat /\ stack[i].out <= o /\ o \in Nat
      BY <1>2, <1>4
    <3> QED BY <2>1, <3>1
  <2>3. stack[i].back \in 1..Len(buffers)
    BY <1>3, <1>4, <1>8
  <2>4. \A j \in 1..i - 1 : j \in 1..k
    BY <1>1
  <2> QED BY <1>3, <1>4, <2>1, <2>2, <2>3, <2>4
<1> QED BY <1>1, <1>5, <1>6, <1>7, <1>8 DEF SharedBy

LEMMA WriteKeeps == OrderInv /\ TypeOK' /\ Write => OrderInv'
<1> SUFFICES ASSUME OrderInv, TypeOK', Write PROVE OrderInv'
  OBVIOUS
<1> DEFINE k == Len(frames)
<1>1. /\ Begun /\ frames' = Advanced /\ frames # <<>> /\ TypeOK
      /\ Frm.next <= Len(At(Frm.level).items) /\ At(Frm.level).items[Frm.next] = "text"
      /\ bufs' = [bufs EXCEPT ![Frm.out] = Append(@, <<Frm.level, Frm.next>>)]
      /\ doc' = doc /\ phase' = phase /\ fiber' = fiber /\ cur' = cur /\ sent' = sent
  BY DEF Write, Item, Running, Begun, OrderInv
<1>2. /\ doc \in Documents /\ WellFormed(frames, bufs) /\ frames[1].level = Top
      /\ Accounted(frames, bufs, sent) /\ SharedBy(frames, bufs, cur) /\ Frm = frames[k]
      /\ k \in Nat \ {0}
  BY <1>1, RunningFacts
<1>3. Further(frames, frames') /\ frames'[k].back = frames[k].back /\ Len(frames') = k
  BY <1>1, AdvancedFurther
<1>4. WellFormed(frames', bufs') /\ frames'[1].level = Top
  <2>1. bufs' \in Seq(Seq(Text)) /\ Buffered(frames', bufs')
    BY DEF TypeOK
  <2>2. frames[k].next <= Len(At(frames[k].level).items)
    BY <1>1, <1>2
  <2>3. WellFormed(frames', bufs') /\ frames'[1].level = frames[1].level
    BY <1>2, <1>3, <2>1, <2>2, FurtherWellFormed
  <2> QED BY <1>2, <2>3
<1>5. Accounted(frames', bufs', sent')
  BY <1>1, <1>2, <1>3, WriteAccount
<1>6. SharedBy(frames', bufs', cur')
  <2>1. \A x \in 1..Len(bufs) : bufs[x] = <<>> /\ x # frames[k].out => bufs'[x] = <<>>
    <3>1. bufs' = [bufs EXCEPT ![frames[k].out] = Append(@, <<Frm.level, Frm.next>>)]
      BY <1>1, <1>2
    <3>2. \A x \in DOMAIN bufs : x # frames[k].out => bufs'[x] = bufs[x]
      BY <3>1
    <3> QED BY <1>2, <3>2, WellFormedFacts
  <2>2. cur \in 1..Len(bufs)
    BY <1>1, <1>2, WellFormedFacts DEF TypeOK
  <2> QED BY <1>1, <1>2, <1>3, <2>1, <2>2, FurtherShared, ZenonT(30)
<1>7. phase' \in {"resume", "end", "render"} /\ frames' # <<>>
  BY <1>1, <1>2, <1>3 DEF Running, Begun
<1> QED BY <1>1, <1>4, <1>5, <1>6, <1>7, RunningKeeps

(* A flush leaves the templates as they are, with less in the buffer.      *)
LEMMA Flushed ==
  ASSUME WellFormed(frames, bufs), Accounted(frames, bufs, sent), SharedBy(frames, bufs, cur),
         TypeOK', sent' = sent \o bufs[1], bufs' = [bufs EXCEPT ![1] = <<>>]
  PROVE  WellFormed(frames, bufs') /\ Accounted(frames, bufs', sent')
<1>1. bufs[1] = <<>> \/ frames[1].out = 1
  BY DEF SharedBy
<1>2. Accounted(frames, bufs', sent')
  BY <1>1, FlushAccount
<1>3. DOMAIN bufs' = DOMAIN bufs /\ bufs' \in Seq(Seq(Text)) /\ bufs \in Seq(Seq(Text))
  BY DEF TypeOK, WellFormed
<1>4. Len(bufs') = Len(bufs)
  BY <1>3
<1>5. Buffered(frames, bufs')
  BY <1>4 DEF WellFormed, Buffered
<1> QED BY <1>2, <1>3, <1>5 DEF WellFormed

LEMMA PauseKeeps == OrderInv /\ TypeOK' /\ (Pause \/ Sleep) => OrderInv'
<1> SUFFICES ASSUME OrderInv, TypeOK', Pause \/ Sleep PROVE OrderInv'
  OBVIOUS
<1> DEFINE k == Len(frames)
<1>1. /\ Begun /\ frames' = Advanced /\ frames # <<>> /\ TypeOK
      /\ Frm.next <= Len(At(Frm.level).items)
      /\ At(Frm.level).items[Frm.next] \in {"pause", "sleep"}
      /\ doc' = doc /\ fiber' = fiber /\ cur' = cur
      /\ phase' \in {"action", "resume", "end", "render", "cut", "failed"}
      /\ watch' = "asleep" => phase' \in {"resume", "end", "render"}
      /\ \/ sent' = sent /\ bufs' = bufs /\ phase' # "action"
         \/ sent' = sent \o bufs[1] /\ bufs' = [bufs EXCEPT ![1] = <<>>]
  <2>1. CASE Pause
    BY <2>1 DEF Pause, Item, Running, Begun, OrderInv, ResumeEnds, AfterPause, Flush, Sends
  <2>2. CASE Sleep
    BY <2>2 DEF Sleep, Item, Running, Begun, OrderInv
  <2> QED BY <2>1, <2>2
<1>2. /\ doc \in Documents /\ WellFormed(frames, bufs) /\ frames[1].level = Top
      /\ Accounted(frames, bufs, sent) /\ SharedBy(frames, bufs, cur) /\ Frm = frames[k]
      /\ k \in Nat \ {0} /\ 1 \in DOMAIN bufs /\ DOMAIN bufs = 1..Len(bufs)
  BY <1>1, RunningFacts, WellFormedFacts
<1>3. Further(frames, frames') /\ frames'[k].back = frames[k].back /\ Len(frames') = k
  BY <1>1, AdvancedFurther
<1>4. frames[k].next <= Len(At(frames[k].level).items) /\ At(frames[k].level).items[frames[k].next] \in {"pause", "sleep"}
  BY <1>1, <1>2
<1>5. bufs' \in Seq(Seq(Text)) /\ Buffered(frames', bufs')
  BY DEF TypeOK
<1>6. WellFormed(frames', bufs') /\ frames'[1].level = Top
  <2>1. WellFormed(frames', bufs') /\ frames'[1].level = frames[1].level
    BY <1>2, <1>3, <1>4, <1>5, FurtherWellFormed
  <2> QED BY <1>2, <2>1
<1>7. WellFormed(frames, bufs') /\ Accounted(frames, bufs', sent')
  <2>1. CASE sent' = sent /\ bufs' = bufs
    BY <1>2, <2>1
  <2>2. CASE sent' = sent \o bufs[1] /\ bufs' = [bufs EXCEPT ![1] = <<>>]
    BY <1>1, <1>2, <2>2, Flushed
  <2> QED BY <1>1, <2>1, <2>2
<1>8. Accounted(frames', bufs', sent')
  BY <1>2, <1>3, <1>4, <1>7, PauseAccount
<1>9. SharedBy(frames', bufs', cur')
  <2>1. \A x \in 1..Len(bufs) : bufs[x] = <<>> => bufs'[x] = <<>>
    <3>1. CASE bufs' = bufs
      BY <3>1
    <3>2. CASE bufs' = [bufs EXCEPT ![1] = <<>>]
      BY <1>2, <3>2
    <3> QED BY <1>1, <3>1, <3>2
  <2>2. cur \in 1..Len(bufs)
    BY <1>1, <1>2 DEF TypeOK
  <2> QED BY <1>1, <1>2, <1>3, <2>1, <2>2, FurtherShared
<1>10. frames' # <<>> /\ (phase' = "action" => bufs'[1] = <<>>)
  BY <1>1, <1>2, <1>3
<1> QED BY <1>1, <1>6, <1>8, <1>9, <1>10, RunningKeeps

(* A sleeping template goes on, in a stream after a flush.                 *)
LEMMA WakeKeeps == OrderInv /\ TypeOK' /\ Wake => OrderInv'
<1> SUFFICES ASSUME OrderInv, TypeOK', Wake PROVE OrderInv'
  OBVIOUS
<1>1. /\ Begun /\ TypeOK /\ frames' = frames /\ doc' = doc /\ fiber' = fiber /\ cur' = cur
      /\ phase' \in {"action", "end", "render"} /\ watch' # "asleep"
      /\ \/ sent' = sent /\ bufs' = bufs /\ phase' # "action"
         \/ sent' = sent \o bufs[1] /\ bufs' = [bufs EXCEPT ![1] = <<>>]
  <2>1. Begun /\ TypeOK
    BY DEF Wake, OrderInv, Control, Begun
  <2>2. CASE phase = "render"
    BY <2>1, <2>2 DEF Wake
  <2>3. CASE phase # "render"
    <3>1. AfterPause /\ Flush /\ watch' \in {"woken", "registered"}
      BY <2>3 DEF Wake
    <3> QED BY <2>1, <2>3, <3>1 DEF Wake, AfterPause, Flush, Begun
  <2> QED BY <2>2, <2>3
<1>2. /\ WellFormed(frames, bufs) /\ frames[1].level = Top /\ frames # <<>>
      /\ Accounted(frames, bufs, sent) /\ SharedBy(frames, bufs, cur) /\ 1 \in DOMAIN bufs
  BY <1>1, RunningFacts, WellFormedFacts
<1>3. CASE sent' = sent /\ bufs' = bufs
  BY <1>1, <1>2, <1>3, RunningKeeps
<1>4. CASE sent' = sent \o bufs[1] /\ bufs' = [bufs EXCEPT ![1] = <<>>]
  <2>1. WellFormed(frames, bufs') /\ Accounted(frames, bufs', sent')
    BY <1>1, <1>2, <1>4, Flushed
  <2>2. SharedBy(frames, bufs', cur)
    <3>1. \A x \in DOMAIN bufs : bufs[x] = <<>> => bufs'[x] = <<>>
      BY <1>2, <1>4
    <3>2. /\ cur \in DOMAIN bufs
          /\ \A i \in 1..Len(frames) : frames[i].back # 0 => frames[i].back \in DOMAIN bufs
      <4>1. /\ cur \in DOMAIN bufs /\ bufs \in Seq(Seq(Text)) /\ frames \in Seq(Frame)
            /\ Buffered(frames, bufs)
        BY <1>1 DEF TypeOK
      <4>2. DOMAIN bufs = 1..Len(bufs) /\ Len(bufs) \in Nat /\ DOMAIN frames = 1..Len(frames)
        BY <4>1
      <4> QED BY <4>1, <4>2 DEF Buffered
    <3> QED BY <1>2, <3>1, <3>2 DEF SharedBy
  <2>3. bufs'[1] = <<>>
    BY <1>2, <1>4
  <2> QED BY <1>1, <1>2, <2>1, <2>2, <2>3, RunningKeeps
<1> QED BY <1>1, <1>3, <1>4

LEMMA EnteredWellFormed ==
  ASSUME doc \in Documents, NEW stack, NEW buffers, NEW more, NEW b2,
         WellFormed(stack, buffers), Entered(stack, more),
         stack[Len(stack)].next <= Len(At(stack[Len(stack)].level).items),
         b2 \in Seq(Seq(Text)), Buffered(more, b2)
  PROVE  WellFormed(more, b2) /\ more[1].level = stack[1].level
<1> DEFINE k == Len(stack)
<1>1. /\ k \in Nat \ {0} /\ Len(more) = k + 1 /\ stack[k].next \in Nat /\ k \in 1..k /\ k - 1 + 1 = k
      /\ \A i \in 1..k : i \in 1..k - 1 \/ i = k
      /\ \A i \in 1..k + 1 : i \in 1..k \/ i = k + 1
      /\ \A i \in 1..k - 1 : i \in 1..k /\ i + 1 \in 1..k
      /\ k + 1 - 1 = k
  <2>1. k \in Nat \ {0}
    BY WellFormedFacts
  <2>2. k \in 1..k
    BY <2>1
  <2>3. stack[k].next \in Nat
    BY <2>2, WellFormedFacts
  <2> QED BY <2>1, <2>2, <2>3 DEF Entered
<1> HIDE DEF k
<1>2. \A i \in 1..k : /\ stack[i].level \in 0..Top /\ stack[i].out \in Nat
                      /\ stack[i].next \in 1..Len(At(stack[i].level).items) + 1
  BY WellFormedFacts DEF WellFormed, k
<1>3. \A i \in 1..k - 1 : more[i] = stack[i]
  BY DEF Entered, k
<1>4. /\ more[k].level = stack[k].level /\ more[k].out = stack[k].out /\ more[k].next = stack[k].next + 1
      /\ more[k + 1].next = 1 /\ more[k + 1].level \in 0..Top /\ Called(more[k], more[k + 1])
      /\ more[k + 1].out >= stack[k].out
  BY DEF Entered, k
<1>5. more[k].next \in 1..Len(At(more[k].level).items) + 1
  <2>1. Len(At(stack[k].level).items) \in Nat /\ stack[k].next <= Len(At(stack[k].level).items)
    BY <1>1, <1>2, Templates DEF k
  <2>2. \A x, y \in Nat : x \in 1..y + 1 /\ x <= y => x + 1 \in 1..y + 1
    OBVIOUS
  <2>3. stack[k].next \in 1..Len(At(stack[k].level).items) + 1 /\ stack[k].next \in Nat
    BY <1>1, <1>2
  <2> QED BY <1>4, <2>1, <2>2, <2>3
<1>6. ASSUME NEW i \in 1..k
      PROVE  /\ more[i].level \in 0..Top /\ more[i].level = stack[i].level /\ more[i].out = stack[i].out
             /\ more[i].next \in 1..Len(At(more[i].level).items) + 1
  BY <1>1, <1>2, <1>3, <1>4, <1>5
<1>7. more[k + 1].next \in 1..Len(At(more[k + 1].level).items) + 1
  <2>1. Len(At(more[k + 1].level).items) \in Nat
    BY <1>4, Templates
  <2> QED BY <1>4, <2>1
<1>8. \A i \in 1..k + 1 : more[i].level \in 0..Top /\ more[i].next \in 1..Len(At(more[i].level).items) + 1
  BY <1>1, <1>4, <1>6, <1>7
<1>9. ASSUME NEW i \in 1..k PROVE Called(more[i], more[i + 1])
  <2>1. CASE i = k
    BY <1>4, <2>1
  <2>2. CASE i # k
    <3>1. i \in 1..k - 1 /\ i + 1 \in 1..k
      BY <1>1, <2>2
    <3>2. Called(stack[i], stack[i + 1])
      BY <3>1 DEF WellFormed, k
    <3> QED BY <1>3, <1>6, <3>1, <3>2 DEF Called
  <2> QED BY <2>1, <2>2
<1>10. \A i, j \in 1..k + 1 : i <= j => more[i].out <= more[j].out
  <2>1. \A i, j \in 1..k : i <= j => stack[i].out <= stack[j].out
    BY DEF WellFormed, k
  <2>2. \A i \in 1..k : i <= k /\ ~(k + 1 <= i)
    BY <1>1
  <2>3. more[k + 1].out \in Nat /\ \A i \in 1..k : more[i].out <= more[k + 1].out
    <3>1. more[k + 1] \in Frame
      <4>1. more \in Seq(Frame) /\ k + 1 \in 1..Len(more)
        BY <1>1 DEF Entered
      <4> QED BY <4>1
    <3>2. \A i \in 1..k : stack[i].out <= stack[k].out
      BY <1>1, <2>1, <2>2
    <3>3. more[k + 1].out \in Nat
      BY <3>1 DEF Frame
    <3>4. ASSUME NEW i \in 1..k PROVE more[i].out <= more[k + 1].out
      <4>1. /\ more[i].out = stack[i].out /\ stack[i].out <= stack[k].out /\ stack[i].out \in Nat
            /\ stack[k].out \in Nat /\ more[k + 1].out >= stack[k].out
        BY <1>1, <1>2, <1>4, <1>6, <3>2
      <4> QED BY <3>3, <4>1
    <3> QED BY <3>3, <3>4
  <2> SUFFICES ASSUME NEW i \in 1..k + 1, NEW j \in 1..k + 1, i <= j
               PROVE  more[i].out <= more[j].out
    OBVIOUS
  <2>4. CASE j = k + 1
    BY <1>1, <2>3, <2>4
  <2>5. CASE j # k + 1
    <3>1. i \in 1..k /\ j \in 1..k
      BY <1>1, <2>2, <2>5
    <3> QED BY <1>6, <2>1, <3>1
  <2> QED BY <2>4, <2>5
<1>11. more \in Seq(Frame) /\ more # <<>> /\ 1 \in 1..k
  BY <1>1 DEF Entered
<1>12. more[1].level = stack[1].level
  BY <1>6, <1>11
<1> QED BY <1>1, <1>8, <1>9, <1>10, <1>11, <1>12 DEF WellFormed

(* The stack with a template entered.                                      *)
LEMMA EnterEntered ==
  ASSUME OrderInv, Begun,
         NEW level \in 0..Top, NEW buffers \in Seq(Seq(Text)), NEW current \in DOMAIN buffers,
         NEW back \in 0..Len(buffers),
         Enter(level, Advanced, buffers, current, back),
         Frm.next <= Len(At(Frm.level).items),
         \/ At(Frm.level).items[Frm.next] = "yield" /\ level = Frm.level - 1
         \/ At(Frm.level).items[Frm.next] = "partial" /\ level = 0,
         Frm.out <= current, Frm.out <= Len(buffers)
  PROVE  /\ Entered(frames, frames')
         /\ \A i \in 1..Len(frames) : /\ frames'[i].back = frames[i].back /\ frames'[i].out = frames[i].out
                                      /\ frames'[i].level = frames[i].level
         /\ frames'[Len(frames) + 1].back = back /\ frames'[Len(frames) + 1].level = level
         /\ frames'[Len(frames) + 1].out = (IF At(level).friendly THEN current ELSE Len(buffers) + 1)
<1> DEFINE k == Len(frames)
           out == IF At(level).friendly THEN current ELSE Len(buffers) + 1
           new == [level |-> level, next |-> 1, back |-> back, out |-> out]
<1>1. /\ k \in Nat \ {0} /\ k \in 1..k /\ Frm = frames[k] /\ Frm \in Frame /\ doc \in Documents
      /\ Len(buffers) \in Nat /\ Top \in Nat
      /\ \A i \in 1..k : i \in 1..k - 1 \/ i = k
      /\ \A i \in 1..k - 1 : i \in 1..k
  <2>1. /\ k \in Nat \ {0} /\ k \in 1..k /\ Frm = frames[k] /\ Frm \in Frame /\ doc \in Documents
    BY RunningFacts
  <2> QED BY <2>1, Templates
<1>2. /\ Further(frames, Advanced) /\ Advanced[k].back = frames[k].back
      /\ Advanced \in Seq(Frame) /\ Len(Advanced) = k
  BY AdvancedFurther DEF OrderInv, Running, Begun
<1>3. out \in Nat \ {0} /\ out >= Frm.out /\ level \in Nat /\ back \in Nat
  <2>1. current \in Nat \ {0} /\ Frm.out \in Nat
    BY <1>1, SMTT(30) DEF Frame
  <2> QED BY <1>1, <2>1
<1> HIDE DEF out
<1>4. new \in Frame /\ new.level = level /\ new.next = 1 /\ new.back = back /\ new.out = out
  BY <1>3 DEF Frame
<1>5. frames' = Append(Advanced, new)
  BY DEF Enter, out
<1> HIDE DEF new
<1>6. /\ frames' \in Seq(Frame) /\ Len(frames') = k + 1 /\ frames'[k + 1] = new
      /\ \A i \in 1..k : frames'[i] = Advanced[i]
  <2>1. Advanced \in Seq(Frame) /\ new \in Frame /\ frames' = Append(Advanced, new)
    BY <1>2, <1>4, <1>5
  <2>2. /\ frames' \in Seq(Frame) /\ Len(frames') = Len(Advanced) + 1
        /\ frames'[Len(Advanced) + 1] = new
        /\ \A i \in 1..Len(Advanced) : frames'[i] = Advanced[i]
    BY <2>1, AppendProperties
  <2> QED BY <1>2, <2>2
<1>7. /\ \A i \in 1..k - 1 : Advanced[i] = frames[i]
      /\ Advanced[k].level = frames[k].level /\ Advanced[k].out = frames[k].out
      /\ Advanced[k].next = frames[k].next + 1
  BY <1>2 DEF Further
<1>8. Called(frames'[k], frames'[k + 1])
  <2>1. frames'[k].level = Frm.level /\ frames'[k].next = Frm.next + 1 /\ Frm.next \in Nat \ {0}
        /\ frames'[k + 1].level = level
    BY <1>1, <1>4, <1>6, <1>7 DEF Frame
  <2>2. frames'[k].next >= 2 /\ frames'[k].next - 1 = Frm.next
    BY <2>1, SMTT(30)
  <2> QED BY <2>1, <2>2 DEF Called
<1>9. Entered(frames, frames')
  <2>1. \A i \in 1..k - 1 : frames'[i] = frames[i]
    BY <1>1, <1>6, <1>7
  <2>2. /\ frames'[k].level = frames[k].level /\ frames'[k].out = frames[k].out
        /\ frames'[k].next = frames[k].next + 1
    BY <1>1, <1>6, <1>7
  <2>3. frames'[k + 1].next = 1 /\ frames'[k + 1].level \in 0..Top /\ frames'[k + 1].out >= frames[k].out
    BY <1>1, <1>3, <1>4, <1>6
  <2> QED BY <1>6, <1>8, <2>1, <2>2, <2>3 DEF Entered
<1>10. \A i \in 1..k : /\ frames'[i].back = frames[i].back /\ frames'[i].out = frames[i].out
                       /\ frames'[i].level = frames[i].level
  BY <1>1, <1>2, <1>6, <1>7
<1> QED BY <1>4, <1>6, <1>9, <1>10 DEF out

LEMMA EnteredShared ==
  ASSUME NEW stack, NEW buffers, NEW more, NEW b2, NEW c, NEW c2,
         WellFormed(stack, buffers), SharedBy(stack, buffers, c), Len(more) = Len(stack) + 1,
         \A i \in 1..Len(stack) : /\ more[i].back = stack[i].back /\ more[i].out = stack[i].out
                                  /\ more[i].level = stack[i].level,
         c \in 1..Len(buffers), \A x \in 1..Len(buffers) : b2[x] = buffers[x],
         more[Len(stack) + 1].level >= 2 => more[Len(stack) + 1].out <= c2,
         c2 = c \/ (b2[c2] = <<>> /\ \A i \in 1..Len(stack) : stack[i].out <= c2),
         more[Len(stack) + 1].back # 0 =>
           /\ b2[more[Len(stack) + 1].back] = <<>>
           /\ more[Len(stack) + 1].back < more[Len(stack) + 1].out
           /\ \A j \in 1..Len(stack) : stack[j].out < more[Len(stack) + 1].back
  PROVE  SharedBy(more, b2, c2)
<1> DEFINE k == Len(stack)
<1>1. /\ k \in Nat \ {0} /\ 1 \in 1..k /\ 1 \in 1..Len(buffers) /\ k + 1 \in 1..k + 1
      /\ \A i \in 1..k + 1 : i \in 1..k \/ i = k + 1
      /\ \A i \in 1..k : i \in 1..k + 1
      /\ \A i \in 1..k + 1 : \A j \in 1..i - 1 : j \in 1..k
      /\ (k + 1) - 1 = k
  <2>1. k \in Nat \ {0} /\ 1 \in 1..Len(buffers)
    BY WellFormedFacts
  <2> QED BY <2>1
<1>2. /\ \A i \in 1..k : stack[i].level >= 2 => stack[i].out <= c
      /\ buffers[c] = <<>> \/ \E i \in 1..k : stack[i].out = c
      /\ buffers[1] = <<>> \/ stack[1].out = 1
      /\ \A i \in 1..k : stack[i].back # 0 =>
           /\ buffers[stack[i].back] = <<>> /\ stack[i].back < stack[i].out
           /\ \A j \in 1..i - 1 : stack[j].out < stack[i].back
  BY DEF SharedBy
<1>3. \A i \in 1..k : stack[i].back \in 0..Len(buffers) /\ (stack[i].back # 0 => stack[i].back \in 1..Len(buffers))
  <2>1. \A i \in 1..k : stack[i].back \in 0..Len(buffers)
    BY WellFormedFacts DEF WellFormed, Buffered
  <2> QED BY <2>1, WellFormedFacts
<1>4. /\ Len(more) = k + 1
      /\ \A i \in 1..k : /\ more[i].back = stack[i].back /\ more[i].out = stack[i].out
                         /\ more[i].level = stack[i].level
      /\ \A x \in 1..Len(buffers) : b2[x] = buffers[x]
      /\ more[k + 1].level >= 2 => more[k + 1].out <= c2
      /\ c2 = c \/ (b2[c2] = <<>> /\ \A i \in 1..k : stack[i].out <= c2)
      /\ more[k + 1].back # 0 =>
           /\ b2[more[k + 1].back] = <<>>
           /\ more[k + 1].back < more[k + 1].out
           /\ \A j \in 1..k : stack[j].out < more[k + 1].back
  OBVIOUS
<1> HIDE DEF k
<1>5. \A i \in 1..k + 1 : more[i].level >= 2 => more[i].out <= c2
  BY <1>1, <1>2, <1>4
<1>6. b2[c2] = <<>> \/ \E i \in 1..k + 1 : more[i].out = c2
  BY <1>1, <1>2, <1>4
<1>7. b2[1] = <<>> \/ (more # <<>> /\ more[1].out = 1)
  <2>1. more # <<>>
    BY <1>1, <1>4
  <2> QED BY <1>1, <1>2, <1>4, <2>1
<1>8. ASSUME NEW i \in 1..k + 1, more[i].back # 0
      PROVE  /\ b2[more[i].back] = <<>> /\ more[i].back < more[i].out
             /\ \A j \in 1..i - 1 : more[j].out < more[i].back
  <2>1. \A j \in 1..i - 1 : j \in 1..k /\ more[j].out = stack[j].out
    BY <1>1, <1>4
  <2>2. CASE i = k + 1
    BY <1>1, <1>4, <1>8, <2>1, <2>2
  <2>3. CASE i # k + 1
    <3>1. i \in 1..k
      BY <1>1, <2>3
    <3>2. stack[i].back # 0 /\ stack[i].back \in 1..Len(buffers)
      BY <1>3, <1>4, <1>8, <3>1
    <3>3. b2[more[i].back] = <<>> /\ more[i].back < more[i].out
      BY <1>2, <1>4, <3>1, <3>2
    <3>4. \A j \in 1..i - 1 : stack[j].out < stack[i].back
      BY <1>2, <3>1, <3>2
    <3> QED BY <1>4, <2>1, <3>1, <3>3, <3>4
  <2> QED BY <2>2, <2>3
<1> QED BY <1>4, <1>5, <1>6, <1>7, <1>8 DEF SharedBy

(* What both steps that enter a template have in common.                   *)
LEMMA EnterKeeps ==
  ASSUME OrderInv, Begun, TypeOK', doc' = doc, fiber' = fiber, phase' = phase, sent' = sent,
         NEW level \in 0..Top, NEW buffers \in Seq(Seq(Text)), NEW current \in DOMAIN buffers,
         NEW back \in 0..Len(buffers), Len(buffers) >= Len(bufs),
         \A x \in 1..Len(bufs) : buffers[x] = bufs[x],
         Enter(level, Advanced, buffers, current, back), cur' = current,
         Frm.next <= Len(At(Frm.level).items),
         \/ At(Frm.level).items[Frm.next] = "yield" /\ level = Frm.level - 1
         \/ At(Frm.level).items[Frm.next] = "partial" /\ level = 0,
         current = cur \/ (current > Len(bufs) /\ buffers[current] = <<>>), Frm.out <= current,
         level >= 2 => At(level).friendly,
         back # 0 => buffers[back] = <<>> /\ back < current /\ Len(bufs) < back
  PROVE  OrderInv'
<1> DEFINE k == Len(frames)
<1>1. /\ doc \in Documents /\ WellFormed(frames, bufs) /\ frames[1].level = Top
      /\ Accounted(frames, bufs, sent) /\ SharedBy(frames, bufs, cur) /\ Frm = frames[k]
      /\ k \in Nat \ {0} /\ k \in 1..k /\ TypeOK
  BY RunningFacts DEF OrderInv
<1>2. /\ Len(bufs) \in Nat \ {0} /\ DOMAIN bufs = 1..Len(bufs) /\ 1 \in 1..Len(bufs)
      /\ \A i \in 1..k : frames[i].out \in 1..Len(bufs)
      /\ Len(buffers) \in Nat /\ current \in 1..Len(buffers) /\ cur \in 1..Len(bufs)
      /\ \A x \in 1..Len(bufs) : x \in 1..Len(buffers)
  <2>1. /\ Len(bufs) \in Nat \ {0} /\ DOMAIN bufs = 1..Len(bufs) /\ 1 \in 1..Len(bufs)
        /\ \A i \in 1..k : frames[i].out \in 1..Len(bufs)
    BY <1>1, WellFormedFacts
  <2>2. Len(buffers) \in Nat /\ current \in 1..Len(buffers) /\ cur \in 1..Len(bufs)
    <3>1. Len(buffers) \in Nat /\ DOMAIN buffers = 1..Len(buffers)
      OBVIOUS
    <3>2. cur \in DOMAIN bufs
      BY <1>1 DEF TypeOK
    <3> QED BY <2>1, <3>1, <3>2
  <2>3. \A x \in 1..Len(bufs) : x \in 1..Len(buffers)
    BY <2>1, <2>2
  <2> QED BY <2>1, <2>2, <2>3
<1>3. Frm.out <= Len(buffers)
  <2>1. Frm.out \in 1..Len(bufs)
    BY <1>1, <1>2
  <2> QED BY <1>2, <2>1
<1> DEFINE o2 == frames'[k + 1].out
<1>4. /\ Entered(frames, frames')
      /\ \A i \in 1..k : /\ frames'[i].back = frames[i].back /\ frames'[i].out = frames[i].out
                         /\ frames'[i].level = frames[i].level
      /\ frames'[k + 1].back = back /\ frames'[k + 1].level = level
      /\ o2 = (IF At(level).friendly THEN current ELSE Len(buffers) + 1)
  BY <1>3, EnterEntered
<1>5. bufs' = IF At(level).friendly THEN buffers ELSE Append(buffers, <<>>)
  BY DEF Enter
<1>6. /\ \A x \in 1..Len(buffers) : bufs'[x] = buffers[x]
      /\ \A x \in 1..Len(bufs) : bufs'[x] = bufs[x]
      /\ ~At(level).friendly => bufs'[Len(buffers) + 1] = <<>>
  <2>1. CASE At(level).friendly
    BY <1>2, <1>5, <2>1
  <2>2. CASE ~At(level).friendly
    <3>1. <<>> \in Seq(Text) /\ bufs' = Append(buffers, <<>>)
      BY <1>5, <2>2
    <3>2. bufs'[Len(buffers) + 1] = <<>> /\ \A x \in 1..Len(buffers) : bufs'[x] = buffers[x]
      BY <3>1, AppendProperties
    <3> QED BY <1>2, <3>2
  <2> QED BY <2>1, <2>2
<1> HIDE DEF k, o2
<1>7. frames[k].next <= Len(At(frames[k].level).items)
  BY <1>1
<1>8. bufs' \in Seq(Seq(Text)) /\ Buffered(frames', bufs')
  BY DEF TypeOK
<1>9. WellFormed(frames', bufs') /\ frames'[1].level = Top
  <2>1. WellFormed(frames', bufs') /\ frames'[1].level = frames[1].level
    BY <1>1, <1>4, <1>7, <1>8, EnteredWellFormed DEF k
  <2> QED BY <1>1, <2>1
<1>10. o2 = frames[k].out \/ bufs'[o2] = <<>>
  <2>1. CASE ~At(level).friendly
    BY <1>4, <1>6, <2>1
  <2>2. CASE At(level).friendly /\ current > Len(bufs)
    <3>1. buffers[current] = <<>>
      BY <1>2, <2>2
    <3> QED BY <1>2, <1>4, <1>6, <2>2, <3>1
  <2>3. CASE At(level).friendly /\ current = cur
    <3>1. bufs[cur] = <<>> \/ \E i \in 1..k : frames[i].out = cur
      BY <1>1 DEF SharedBy, k
    <3>2. ASSUME NEW i \in 1..k, frames[i].out = cur PROVE cur = frames[k].out
      <4>1. i <= k
        BY <1>1
      <4>2. frames[i].out <= frames[k].out
        BY <1>1, <4>1 DEF WellFormed, k
      <4>3. frames[k].out <= cur /\ frames[k].out \in Nat /\ cur \in Nat
        BY <1>1, <1>2, <2>3, SMTT(30)
      <4> QED BY <3>2, <4>2, <4>3
    <3> QED BY <1>2, <1>4, <1>6, <2>3, <3>1, <3>2
  <2> QED BY <1>2, <2>1, <2>2, <2>3
<1>11. Accounted(frames', bufs', sent')
  <2>1. bufs'[1] = bufs[1] /\ \A i \in 1..k : bufs'[frames[i].out] = bufs[frames[i].out]
    BY <1>2, <1>6
  <2>2. Accounted(frames', bufs', sent)
    BY <1>1, <1>4, <1>7, <1>10, <2>1, EnterAccount DEF k, o2
  <2> QED BY <2>2
<1>12. SharedBy(frames', bufs', cur')
  <2>1. frames'[k + 1].level >= 2 => o2 <= current
    <3>1. current \in Nat
      BY <1>2
    <3> QED BY <1>4, <3>1
  <2>2. current = cur \/ (bufs'[current] = <<>> /\ \A i \in 1..k : frames[i].out <= current)
    <3>1. CASE current = cur
      BY <3>1
    <3>2. CASE current # cur
      <4>1. current > Len(bufs) /\ bufs'[current] = <<>>
        BY <1>2, <1>6, <3>2
      <4>2. ASSUME NEW i \in 1..k PROVE frames[i].out <= current
        <5>1. frames[i].out \in 1..Len(bufs) /\ current \in Nat /\ Len(bufs) \in Nat
          BY <1>2
        <5> QED BY <4>1, <5>1
      <4> QED BY <4>1, <4>2
    <3> QED BY <3>1, <3>2
  <2>3. ASSUME frames'[k + 1].back # 0
        PROVE  /\ bufs'[frames'[k + 1].back] = <<>> /\ frames'[k + 1].back < o2
               /\ \A j \in 1..k : frames[j].out < frames'[k + 1].back
    <3>1. back \in 1..Len(buffers) /\ buffers[back] = <<>> /\ back < current /\ Len(bufs) < back
      BY <1>2, <1>4, <2>3
    <3>2. o2 >= current
      BY <1>2, <1>4
    <3>3. ASSUME NEW j \in 1..k PROVE frames[j].out < back
      <4>1. frames[j].out \in 1..Len(bufs) /\ back \in Nat /\ Len(bufs) \in Nat
        BY <1>2, <3>1
      <4>2. \A x, y, z \in Nat : x <= y /\ y < z => x < z
        OBVIOUS
      <4>3. frames[j].out \in Nat /\ frames[j].out <= Len(bufs)
        BY <4>1
      <4>4. Len(bufs) < back
        BY <3>1
      <4> QED BY <4>1, <4>2, <4>3, <4>4
    <3>4. back < o2
      <4>1. back \in Nat /\ current \in Nat /\ o2 \in Nat
        BY <1>2, <1>4, <3>1, SMTT(30)
      <4> QED BY <3>1, <3>2, <4>1
    <3> QED BY <1>4, <1>6, <3>1, <3>3, <3>4
  <2>4. Len(frames') = k + 1
    BY <1>4 DEF Entered, k
  <2>5. SharedBy(frames', bufs', current)
    BY <1>1, <1>2, <1>4, <1>6, <2>1, <2>2, <2>3, <2>4, EnteredShared DEF k, o2
  <2> QED BY <2>5
<1>13. frames' # <<>> /\ phase' \in {"resume", "end", "render"}
  BY <1>9 DEF WellFormed, Running, Begun
<1> QED BY <1>9, <1>11, <1>12, <1>13, RunningKeeps

LEMMA YieldKeeps == OrderInv /\ TypeOK' /\ Yield => OrderInv'
<1> SUFFICES ASSUME OrderInv, TypeOK', Yield PROVE OrderInv'
  OBVIOUS
<1> DEFINE k == Len(frames)
<1>1. /\ Begun /\ Frm.next <= Len(At(Frm.level).items) /\ At(Frm.level).items[Frm.next] = "yield"
      /\ Enter(Frm.level - 1, Advanced, bufs, cur, 0) /\ TypeOK
      /\ doc' = doc /\ phase' = phase /\ fiber' = fiber /\ cur' = cur /\ sent' = sent
  BY DEF Yield, Item, Running, Begun, OrderInv
<1>2. /\ WellFormed(frames, bufs) /\ SharedBy(frames, bufs, cur) /\ Frm = frames[k] /\ k \in 1..k
      /\ Allowed /\ doc \in Documents /\ Frm \in Frame
  BY <1>1, RunningFacts
<1>3. Frm.level \in 0..Top /\ Frm.level >= 2 /\ Top \in Nat
  <2>1. Frm.level \in 0..Top /\ Frm.next \in Nat \ {0} /\ Top \in Nat
    BY <1>2, Templates DEF WellFormed, Frame
  <2>2. Frm.next \in 1..Len(At(Frm.level).items)
    BY <1>1, <2>1, Templates
  <2> QED BY <1>1, <1>2, <2>1, <2>2, Templates
<1>4. Frm.level - 1 \in 0..Top /\ Frm.out <= cur
  BY <1>2, <1>3 DEF SharedBy
<1>5. Frm.level - 1 >= 2 => At(Frm.level - 1).friendly
  <2> SUFFICES ASSUME Frm.level - 1 >= 2 PROVE At(Frm.level - 1).friendly
    OBVIOUS
  <2>1. doc.layouts \in Seq(Template)
    BY <1>2, DocumentsAssumption DEF DocumentsAssumption
  <2>2. Frm.level - 2 \in DOMAIN doc.layouts
    BY <1>3, <2>1 DEF Top
  <2>3. At(Frm.level - 1) = doc.layouts[Frm.level - 2]
    BY <1>3 DEF At
  <2> QED BY <1>2, <2>2, <2>3 DEF Allowed
<1>6. /\ bufs \in Seq(Seq(Text)) /\ cur \in DOMAIN bufs /\ 0 \in 0..Len(bufs) /\ Len(bufs) >= Len(bufs)
  BY <1>1 DEF TypeOK
<1> QED BY <1>1, <1>4, <1>5, <1>6, EnterKeeps

LEMMA RunPartialKeeps == OrderInv /\ TypeOK' /\ RunPartial => OrderInv'
<1> SUFFICES ASSUME OrderInv, TypeOK', RunPartial PROVE OrderInv'
  OBVIOUS
<1> DEFINE n == Len(bufs)
           buffers == bufs \o Levels
<1>1. /\ Begun /\ Frm.next <= Len(At(Frm.level).items) /\ At(Frm.level).items[Frm.next] = "partial"
      /\ Enter(0, Advanced, bufs \o Levels, n + 2, n + 1) /\ cur' = n + 2 /\ TypeOK
      /\ doc' = doc /\ phase' = phase /\ fiber' = fiber /\ sent' = sent
  <2>1. n \in Nat
    BY DEF OrderInv, TypeOK
  <2>2. (n + 1) + 1 = n + 2
    BY <2>1
  <2> QED BY <2>2 DEF RunPartial, Item, Running, Begun, OrderInv
<1>2. bufs \in Seq(Seq(Text)) /\ Levels \in Seq(Seq(Text)) /\ Len(Levels) = 2
      /\ Levels[1] = <<>> /\ Levels[2] = <<>> /\ n \in Nat
  BY <1>1 DEF TypeOK, Levels
<1>3. /\ buffers \in Seq(Seq(Text)) /\ Len(buffers) = n + 2
      /\ \A x \in 1..n : buffers[x] = bufs[x]
      /\ buffers[n + 1] = <<>> /\ buffers[n + 2] = <<>>
  <2>1. /\ buffers \in Seq(Seq(Text)) /\ Len(buffers) = n + Len(Levels)
        /\ \A x \in 1..n + Len(Levels) : buffers[x] = IF x <= n THEN bufs[x] ELSE Levels[x - n]
    BY <1>2, ConcatProperties
  <2>2. /\ n + 1 \in 1..n + 2 /\ ~(n + 1 <= n) /\ (n + 1) - n = 1
        /\ n + 2 \in 1..n + 2 /\ ~(n + 2 <= n) /\ (n + 2) - n = 2
        /\ \A x \in 1..n : x \in 1..n + 2 /\ x <= n
    BY <1>2
  <2> HIDE DEF buffers, n
  <2> QED BY <1>2, <2>1, <2>2
<1>4. /\ n + 2 \in DOMAIN buffers /\ n + 1 \in 0..Len(buffers) /\ Len(buffers) >= n /\ n + 2 > n
      /\ n < n + 1 /\ n + 1 < n + 2
  BY <1>2, <1>3
<1>5. 0 \in 0..Top /\ doc \in Documents /\ ~(0 >= 2)
  BY <1>1, RunningFacts, Templates
<1>6. Frm.out <= n + 2
  <2>1. Frm.out \in 1..n
    BY <1>1, RunningFacts, WellFormedFacts
  <2> QED BY <1>2, <2>1
<1> HIDE DEF buffers
<1>7. Enter(0, Advanced, buffers, n + 2, n + 1)
  BY <1>1 DEF buffers
<1> QED BY <1>1, <1>3, <1>4, <1>5, <1>6, <1>7, EnterKeeps

(* The stack without the template that has ended.                          *)
LEMMA LessWellFormed ==
  ASSUME NEW stack, NEW buffers, NEW less, NEW b2,
         WellFormed(stack, buffers), Len(stack) > 1,
         less \in Seq(Frame), Len(less) = Len(stack) - 1,
         \A i \in 1..Len(stack) - 1 : less[i] = stack[i],
         b2 \in Seq(Seq(Text)), Buffered(less, b2)
  PROVE  WellFormed(less, b2) /\ less[1] = stack[1]
<1> DEFINE k == Len(stack)
<1>1. /\ k \in Nat \ {0} /\ Len(less) = k - 1 /\ 1 \in 1..k - 1
      /\ \A i \in 1..k - 1 : i \in 1..k /\ less[i] = stack[i]
      /\ \A i \in 1..(k - 1) - 1 : i \in 1..k - 1 /\ i + 1 \in 1..k - 1
  <2>1. k \in Nat \ {0}
    BY WellFormedFacts
  <2> QED BY <2>1
<1>2. /\ \A i \in 1..k : /\ stack[i].level \in 0..Top
                         /\ stack[i].next \in 1..Len(At(stack[i].level).items) + 1
      /\ \A i \in 1..k - 1 : Called(stack[i], stack[i + 1])
      /\ \A i, j \in 1..k : i <= j => stack[i].out <= stack[j].out
  BY DEF WellFormed
<1> HIDE DEF k
<1>3. /\ \A i \in 1..k - 1 : /\ less[i].level \in 0..Top
                             /\ less[i].next \in 1..Len(At(less[i].level).items) + 1
      /\ \A i \in 1..(k - 1) - 1 : Called(less[i], less[i + 1])
      /\ \A i, j \in 1..k - 1 : i <= j => less[i].out <= less[j].out
  BY <1>1, <1>2
<1>4. less # <<>>
  BY <1>1
<1> QED BY <1>1, <1>3, <1>4 DEF WellFormed

LEMMA LessShared ==
  ASSUME NEW stack, NEW buffers, NEW less, NEW b2, NEW c, NEW c2,
         WellFormed(stack, buffers), Len(stack) > 1, SharedBy(stack, buffers, c),
         less # <<>>, Len(less) = Len(stack) - 1,
         \A i \in 1..Len(stack) - 1 : less[i] = stack[i],
         c \in 1..Len(buffers),
         c2 = IF stack[Len(stack)].back = 0 THEN c ELSE stack[Len(stack)].back,
         b2 = [[buffers EXCEPT ![stack[Len(stack)].out] = <<>>]
                 EXCEPT ![stack[Len(stack) - 1].out] = @ \o buffers[stack[Len(stack)].out]]
  PROVE  SharedBy(less, b2, c2)
<1> DEFINE k == Len(stack)
           j == k - 1
           o == stack[k].out
           oj == stack[j].out
           back == stack[k].back
<1>1. /\ k \in Nat \ {0} /\ k \in 1..k /\ j \in 1..j /\ j \in 1..k /\ 1 \in 1..j /\ 1 \in 1..k
      /\ Len(less) = j /\ j <= k
      /\ \A i \in 1..j : i \in 1..k /\ i <= j /\ less[i] = stack[i]
      /\ \A i \in 1..k : i \in 1..j \/ i = k
      /\ \A i \in 1..j : \A h \in 1..i - 1 : h \in 1..j
      /\ k - 1 = j
  <2>1. k \in Nat \ {0}
    BY WellFormedFacts
  <2> QED BY <2>1
<1>2. /\ \A i \in 1..k : stack[i].level >= 2 => stack[i].out <= c
      /\ buffers[c] = <<>> \/ \E i \in 1..k : stack[i].out = c
      /\ buffers[1] = <<>> \/ stack[1].out = 1
      /\ \A i \in 1..k : stack[i].back # 0 =>
           /\ buffers[stack[i].back] = <<>> /\ stack[i].back < stack[i].out
           /\ \A h \in 1..i - 1 : stack[h].out < stack[i].back
  BY DEF SharedBy
<1>3. /\ \A i \in 1..k : /\ stack[i].out \in Nat \ {0} /\ stack[i].out \in DOMAIN buffers
                         /\ stack[i].back \in 0..Len(buffers)
      /\ \A i, h \in 1..k : i <= h => stack[i].out <= stack[h].out
      /\ DOMAIN buffers = 1..Len(buffers) /\ 1 \in DOMAIN buffers /\ Len(buffers) \in Nat
  <2>1. /\ \A i \in 1..k : stack[i].back \in 0..Len(buffers)
        /\ \A i, h \in 1..k : i <= h => stack[i].out <= stack[h].out
    BY WellFormedFacts DEF WellFormed, Buffered
  <2> QED BY <2>1, WellFormedFacts
<1>4. /\ \A x \in DOMAIN buffers : x # o /\ x # oj => b2[x] = buffers[x]
      /\ oj # o => b2[o] = <<>>
  <2> DEFINE b1 == [buffers EXCEPT ![o] = <<>>]
  <2>1. DOMAIN b1 = DOMAIN buffers /\ b1[o] = <<>> /\ \A x \in DOMAIN buffers : x # o => b1[x] = buffers[x]
    BY <1>1, <1>3
  <2> HIDE DEF b1
  <2>2. b2 = [b1 EXCEPT ![oj] = b1[oj] \o buffers[o]]
    BY DEF b1
  <2>3. o \in DOMAIN buffers
    BY <1>1, <1>3
  <2> QED BY <2>1, <2>2, <2>3
<1>5. c2 = IF back = 0 THEN c ELSE back
  OBVIOUS
<1>6. /\ oj <= o /\ o \in Nat \ {0} /\ oj \in Nat \ {0} /\ back \in 0..Len(buffers)
      /\ \A i \in 1..j : stack[i].out <= oj
      /\ back # 0 => /\ buffers[back] = <<>> /\ back < o /\ \A i \in 1..j : stack[i].out < back
                     /\ back \in DOMAIN buffers
  <2>1. back \in 0..Len(buffers) /\ (back # 0 => back \in DOMAIN buffers)
    BY <1>1, <1>3
  <2>2. back # 0 => buffers[back] = <<>> /\ back < o /\ \A i \in 1..j : stack[i].out < back
    BY <1>1, <1>2
  <2> QED BY <1>1, <1>3, <2>1, <2>2
<1> HIDE DEF k, j, o, oj, back
<1>7. ASSUME NEW i \in 1..j, less[i].level >= 2 PROVE less[i].out <= c2
  <2>1. stack[i].out <= c /\ less[i] = stack[i] /\ stack[i].out \in Nat
    BY <1>1, <1>2, <1>3, <1>7
  <2>2. CASE back = 0
    BY <1>5, <2>1, <2>2
  <2>3. CASE back # 0
    <3>1. stack[i].out < back /\ back \in Nat
      BY <1>6, <1>3, <2>3, SMTT(30)
    <3> QED BY <1>5, <2>1, <2>3, <3>1
  <2> QED BY <2>2, <2>3
<1>8. b2[c2] = <<>> \/ \E i \in 1..j : less[i].out = c2
  <2>1. CASE back # 0
    <3>1. back # o /\ back # oj
      <4>1. back \in Nat /\ back < o /\ oj < back
        <5>1. stack[j].out < back
          BY <1>1, <1>6, <2>1
        <5>2. oj = stack[j].out
          BY DEF oj
        <5> QED BY <1>6, <2>1, <5>1, <5>2, <1>3
      <4> QED BY <1>6, <4>1
    <3> QED BY <1>4, <1>5, <1>6, <2>1, <3>1
  <2>2. CASE back = 0 /\ c = oj
    <3>1. less[j].out = oj
      BY <1>1 DEF oj
    <3> QED BY <1>1, <1>5, <2>2, <3>1
  <2>3. CASE back = 0 /\ c # oj /\ c = o
    BY <1>4, <1>5, <2>3
  <2>4. CASE back = 0 /\ c # oj /\ c # o
    <3>1. b2[c] = buffers[c]
      BY <1>3, <1>4, <2>4
    <3>2. ASSUME NEW i \in 1..k, stack[i].out = c PROVE i \in 1..j /\ less[i].out = c
      BY <1>1, <2>4, <3>2 DEF o
    <3> QED BY <1>2, <1>5, <2>4, <3>1, <3>2
  <2> QED BY <2>1, <2>2, <2>3, <2>4
<1>9. b2[1] = <<>> \/ (less # <<>> /\ less[1].out = 1)
  <2>1. CASE stack[1].out = 1
    BY <1>1, <2>1
  <2>2. CASE stack[1].out # 1
    <3>1. oj # 1 /\ o # 1
      <4>1. stack[1].out \in Nat \ {0} /\ stack[1].out <= oj
        BY <1>1, <1>3, <1>6
      <4> QED BY <1>6, <2>2, <4>1
    <3> QED BY <1>2, <1>3, <1>4, <2>2, <3>1
  <2> QED BY <2>1, <2>2
<1>10. ASSUME NEW i \in 1..j, less[i].back # 0
       PROVE  /\ b2[less[i].back] = <<>> /\ less[i].back < less[i].out
              /\ \A h \in 1..i - 1 : less[h].out < less[i].back
  <2>1. less[i] = stack[i] /\ i \in 1..k
    BY <1>1
  <2>2. /\ buffers[stack[i].back] = <<>> /\ stack[i].back < stack[i].out
        /\ \A h \in 1..i - 1 : stack[h].out < stack[i].back
    BY <1>2, <1>10, <2>1
  <2>3. stack[i].back \in Nat /\ stack[i].back \in DOMAIN buffers /\ stack[i].out \in Nat
    BY <1>3, <1>10, <2>1
  <2>4. stack[i].back # o /\ stack[i].back # oj
    BY <1>6, <2>2, <2>3
  <2>5. b2[stack[i].back] = <<>>
    BY <1>4, <2>2, <2>3, <2>4
  <2>6. \A h \in 1..i - 1 : less[h] = stack[h]
    BY <1>1
  <2> QED BY <2>1, <2>2, <2>5, <2>6
<1> QED BY <1>1, <1>7, <1>8, <1>9, <1>10 DEF SharedBy

LEMMA ReturnKeeps == OrderInv /\ TypeOK' /\ Return => OrderInv'
<1> SUFFICES ASSUME OrderInv, TypeOK', Return PROVE OrderInv'
  OBVIOUS
<1> DEFINE k == Len(frames)
           o == frames[k].out
           back == frames[k].back
<1>1. /\ Begun /\ frames # <<>> /\ TypeOK /\ Frm.next > Len(At(Frm.level).items)
      /\ frames' = Front(frames) /\ doc' = doc /\ sent' = sent
      /\ cur' = IF Frm.back = 0 THEN cur ELSE Frm.back
  BY DEF Return, Running, Begun, OrderInv
<1>2. /\ doc \in Documents /\ WellFormed(frames, bufs) /\ frames[1].level = Top
      /\ Accounted(frames, bufs, sent) /\ SharedBy(frames, bufs, cur) /\ Frm = frames[k]
      /\ k \in Nat \ {0} /\ k \in 1..k /\ fiber = "live"
  BY <1>1, RunningFacts
<1>3. /\ frames' \in Seq(Frame) /\ Len(frames') = k - 1
      /\ \A i \in 1..k - 1 : frames'[i] = frames[i]
  BY <1>1, <1>2, TopFrame
<1>4. bufs' \in Seq(Seq(Text)) /\ Buffered(frames', bufs') /\ cur \in 1..Len(bufs)
      /\ DOMAIN bufs = 1..Len(bufs)
  BY <1>1, <1>2, WellFormedFacts DEF TypeOK
<1>5. CASE k > 1
  <2>1. /\ bufs' = [[bufs EXCEPT ![frames[k].out] = <<>>]
                      EXCEPT ![frames[k - 1].out] = @ \o bufs[frames[k].out]]
        /\ phase' = phase /\ fiber' = fiber
    BY <1>2, <1>5 DEF Return, Join
  <2>2. WellFormed(frames', bufs') /\ frames'[1] = frames[1]
    BY <1>2, <1>3, <1>4, <1>5, LessWellFormed
  <2>3. frames' # <<>>
    BY <2>2 DEF WellFormed
  <2>4. Accounted(frames', bufs', sent')
    <3>1. Accounted(frames', bufs', sent)
      BY <1>1, <1>2, <1>3, <1>5, <2>1, ReturnAccount
    <3> QED BY <1>1, <3>1
  <2>5. SharedBy(frames', bufs', cur')
    <3>1. cur' = IF frames[k].back = 0 THEN cur ELSE frames[k].back
      BY <1>1, <1>2
    <3>2. WellFormed(frames, bufs) /\ SharedBy(frames, bufs, cur)
      BY <1>2
    <3>3. Len(frames) > 1
      BY <1>5
    <3>4. Len(frames') = Len(frames) - 1 /\ \A i \in 1..Len(frames) - 1 : frames'[i] = frames[i]
      BY <1>3
    <3>5. cur' = IF frames[Len(frames)].back = 0 THEN cur ELSE frames[Len(frames)].back
      BY <3>1
    <3>6. bufs' = [[bufs EXCEPT ![frames[Len(frames)].out] = <<>>]
                     EXCEPT ![frames[Len(frames) - 1].out] = @ \o bufs[frames[Len(frames)].out]]
      BY <2>1
    <3>7. cur \in 1..Len(bufs)
      BY <1>4
    <3> HIDE DEF k, o, back
    <3> QED BY <2>3, <3>2, <3>3, <3>4, <3>5, <3>6, <3>7, LessShared, ZenonT(60)
  <2>6. phase' \in {"resume", "end", "render"} /\ frames'[1].level = Top
    BY <1>1, <1>2, <2>1, <2>2 DEF Running, Begun
  <2> QED BY <1>1, <2>1, <2>2, <2>3, <2>4, <2>5, <2>6, RunningKeeps
<1>6. CASE k = 1
  <2>1. /\ bufs' = [bufs EXCEPT ![o] = <<>>] /\ rest' = bufs[o] /\ fiber' = "ended"
        /\ phase' = IF phase = "resume" THEN "action" ELSE phase
    BY <1>2, <1>6 DEF Return, Join
  <2>2. frames' = <<>> /\ 1..Len(frames') = {}
    <3>1. Len(frames') = 0
      BY <1>3, <1>6
    <3>2. frames' = <<>>
      <4>1. frames' \in Seq(Frame)
        BY <1>3
      <4> QED BY <3>1, <4>1, EmptySeq
    <3>3. 1..0 = {}
      OBVIOUS
    <3> QED BY <3>1, <3>2, <3>3
  <2>3. sent \o bufs[frames[1].out] = Content
    <3>1. frames[1].next > Len(At(Top).items)
      BY <1>1, <1>2, <1>6
    <3> QED BY <1>2, <1>6, <3>1, AccountedFacts
  <2>4. Ended'
    <3>1. sent' \o rest' = Content'
      BY <1>1, <1>6, <2>1, <2>3, Undisturbed
    <3>2. phase' # "closed"
      BY <1>1, <2>1 DEF Running, Begun
    <3> QED BY <3>1, <3>2 DEF Ended
  <2>5. bufs'[1] = <<>>
    <3>1. bufs[1] = <<>> \/ o = 1
      BY <1>2, <1>6 DEF SharedBy
    <3>2. 1 \in DOMAIN bufs /\ o \in DOMAIN bufs
      BY <1>2, WellFormedFacts
    <3> QED BY <2>1, <3>1, <3>2
  <2>8. Control'
    <3>1. phase' \in {"action", "end", "render"} /\ Allowed'
      BY <1>1, <2>1, RunningFacts, Undisturbed DEF Begun
    <3>2. watch' # "asleep"
      BY DEF Return, Running
    <3> QED BY <2>1, <2>2, <2>5, <3>1, <3>2 DEF Control
  <2>6. Told'
    BY <2>2 DEF Told
  <2>7. Shared'
    <3>1. /\ bufs[cur] = <<>> \/ o = cur
          /\ bufs[1] = <<>> \/ o = 1
          /\ back # 0 => bufs[back] = <<>> /\ back < o
      <4>1. 1..Len(frames) = {1} /\ 1 \in 1..Len(frames)
        BY <1>6
      <4> QED BY <1>2, <1>6, <4>1 DEF SharedBy
    <3>2. /\ o \in DOMAIN bufs /\ bufs'[o] = <<>>
          /\ \A x \in DOMAIN bufs : x # o => bufs'[x] = bufs[x]
          /\ 1 \in DOMAIN bufs /\ back \in 0..Len(bufs)
      <4>1. o \in DOMAIN bufs /\ 1 \in DOMAIN bufs
        BY <1>2, WellFormedFacts
      <4>2. back \in 0..Len(bufs)
        BY <1>2, WellFormedFacts DEF WellFormed, Buffered
      <4> QED BY <2>1, <4>1, <4>2
    <3>4. bufs'[cur'] = <<>>
      <4>1. CASE back = 0
        BY <1>1, <1>2, <1>4, <3>1, <3>2, <4>1
      <4>2. CASE back # 0
        <5>1. back \in DOMAIN bufs /\ back # o
          <6>1. back \in Nat /\ o \in Nat /\ back < o
            BY <1>4, <3>1, <3>2, <4>2
          <6> QED BY <1>4, <3>2, <4>2, <6>1
        <5> QED BY <1>1, <1>2, <3>1, <3>2, <4>2, <5>1
      <4> QED BY <4>1, <4>2
    <3> QED BY <2>2, <2>5, <3>4 DEF Shared, SharedBy
  <2> QED BY <2>4, <2>6, <2>7, <2>8 DEF OrderInv
<1>7. k > 1 \/ k = 1
  <2> HIDE DEF k
  <2> QED BY <1>2
<1> QED BY <1>5, <1>6, <1>7

(* A template starts with nothing written and nothing sent.                *)
LEMMA BeginKeeps ==
  ASSUME OrderInv, TypeOK', fiber = "new", fiber' = "live", Allowed,
         Enter(Top, frames, bufs, cur, 0), doc' = doc, cur' = cur, sent' = sent,
         phase' \in {"resume", "end", "render"}
  PROVE  OrderInv'
<1> DEFINE f == [level |-> Top, next |-> 1, back |-> 0,
                 out |-> IF At(Top).friendly THEN cur ELSE Len(bufs) + 1]
<1>1. TypeOK /\ Control /\ Shared /\ doc \in Documents
  BY DEF OrderInv, TypeOK
<1>2. frames = <<>> /\ sent = <<>>
  BY <1>1 DEF Control
<1>3. bufs[cur] = <<>> /\ bufs[1] = <<>>
  <2>1. Len(<<>>) = 0 /\ 1..0 = {}
    OBVIOUS
  <2> QED BY <1>1, <1>2, <2>1 DEF Shared, SharedBy
<1>4. /\ bufs \in Seq(Seq(Text)) /\ Len(bufs) \in Nat /\ DOMAIN bufs = 1..Len(bufs)
      /\ cur \in 1..Len(bufs) /\ 1 \in 1..Len(bufs) /\ Len(bufs) + 1 \notin 1..Len(bufs)
  BY <1>1, SMTT(30) DEF TypeOK
<1>5. /\ f.level = Top /\ f.next = 1 /\ f.back = 0
      /\ f.out = IF At(Top).friendly THEN cur ELSE Len(bufs) + 1
  OBVIOUS
<1>6. frames' = Append(<<>>, f)
  BY <1>2 DEF Enter
<1> HIDE DEF f
<1>7. Len(frames') = 1 /\ frames'[1] = f /\ frames' # <<>>
  BY <1>6, EmptySeq
<1>8. bufs' = IF At(Top).friendly THEN bufs ELSE Append(bufs, <<>>)
  BY DEF Enter
<1>9. /\ \A x \in 1..Len(bufs) : bufs'[x] = bufs[x]
      /\ ~At(Top).friendly => bufs'[Len(bufs) + 1] = <<>>
  <2>1. CASE At(Top).friendly
    BY <1>8, <2>1
  <2>2. CASE ~At(Top).friendly
    <3>1. bufs' = Append(bufs, <<>>) /\ <<>> \in Seq(Text)
      BY <1>8, <2>2
    <3> QED BY <1>4, <3>1, AppendProperties
  <2> QED BY <2>1, <2>2
<1>10. bufs'[f.out] = <<>> /\ bufs'[1] = <<>> /\ bufs'[cur] = <<>>
  <2>1. CASE At(Top).friendly
    BY <1>3, <1>4, <1>5, <1>9, <2>1
  <2>2. CASE ~At(Top).friendly
    BY <1>3, <1>4, <1>5, <1>9, <2>2
  <2> QED BY <2>1, <2>2
<1>11. \A i \in 1..Len(frames') : i = 1
  BY <1>7
<1>12. WellFormed(frames', bufs')
  <2>1. frames' \in Seq(Frame) /\ bufs' \in Seq(Seq(Text)) /\ Buffered(frames', bufs')
    BY DEF TypeOK, Buffered
  <2>2. \A i \in 1..Len(frames') : /\ frames'[i].level \in 0..Top
                                   /\ frames'[i].next \in 1..Len(At(frames'[i].level).items) + 1
    <3>1. Top \in 0..Top
      BY <1>1, Templates
    <3>2. Len(At(Top).items) \in Nat
      BY <1>1, <3>1, Templates
    <3>3. 1 \in 1..Len(At(Top).items) + 1
      BY <3>2
    <3> QED BY <1>5, <1>7, <1>11, <3>1, <3>3
  <2>3. 1..Len(frames') - 1 = {}
    BY <1>7
  <2>4. \A i, j \in 1..Len(frames') : i <= j => frames'[i].out <= frames'[j].out
    <3>1. frames'[1].out \in Nat
      BY <2>1, <1>7, <1>4, <1>5
    <3> QED BY <1>11, <3>1
  <2> QED BY <1>7, <2>1, <2>2, <2>3, <2>4 DEF WellFormed
<1>13. Accounted(frames', bufs', sent')
  <2>1. Accounted(frames', bufs', <<>>)
    BY <1>1, <1>5, <1>7, <1>10, <1>12, BeginAccount
  <2> QED BY <1>2, <2>1
<1>14. SharedBy(frames', bufs', cur')
  <2>1. f.level >= 2 => f.out <= cur
    <3> SUFFICES ASSUME Top >= 2 PROVE f.out <= cur
      BY <1>5
    <3>1. doc.layouts \in Seq(Template) /\ Top \in Nat
      BY <1>1, Templates, DocumentsAssumption DEF DocumentsAssumption
    <3>2. Top - 1 \in DOMAIN doc.layouts
      BY <3>1 DEF Top
    <3>3. At(Top) = doc.layouts[Top - 1]
      BY <3>1 DEF At
    <3>4. At(Top).friendly
      BY <3>2, <3>3 DEF Allowed
    <3> QED BY <1>4, <1>5, <3>4
  <2>2. \A i \in 1..Len(frames') : frames'[i].level >= 2 => frames'[i].out <= cur'
    BY <1>7, <1>11, <2>1
  <2>3. \A i \in 1..Len(frames') : frames'[i].back = 0
    BY <1>5, <1>7, <1>11
  <2>4. bufs'[cur'] = <<>> /\ bufs'[1] = <<>>
    BY <1>10
  <2> QED BY <2>2, <2>3, <2>4 DEF SharedBy
<1>15. Told'
  BY <1>5, <1>7, <1>12, <1>13, ToldKept
<1>16. Control'
  <2>1. Allowed'
    BY Undisturbed
  <2> QED BY <1>7, <2>1 DEF Control
<1>17. Shared' /\ Ended'
  BY <1>14 DEF Shared, SharedBy, Ended
<1> QED BY <1>15, <1>16, <1>17 DEF OrderInv

(* A step that leaves the templates and what is sent alone.                *)
LEMMA IdleKeeps ==
  ASSUME OrderInv, TypeOK', doc' = doc, frames' = frames, bufs' = bufs, cur' = cur,
         sent' = sent, rest' = rest, fiber' = fiber, Control', phase' = "closed" <=> phase = "closed"
  PROVE  OrderInv'
<1>1. Told'
  <2>1. Told
    BY DEF OrderInv
  <2> QED BY <2>1, ToldKept, Undisturbed DEF Told
<1>2. Shared'
  BY DEF OrderInv, Shared, SharedBy
<1>3. Ended'
  <2>1. Ended
    BY DEF OrderInv
  <2> QED BY <2>1, Undisturbed DEF Ended
<1> QED BY <1>1, <1>2, <1>3 DEF OrderInv

(* The current buffer of a partial that is no part of the stream.          *)
LEMMA PartialInActionKeeps == OrderInv /\ TypeOK' /\ PartialInAction => OrderInv'
<1> SUFFICES ASSUME OrderInv, TypeOK', PartialInAction PROVE OrderInv'
  OBVIOUS
<1> DEFINE n == Len(bufs)
<1>1. /\ TypeOK /\ Control /\ Told /\ Shared /\ Ended /\ bufs' = Append(bufs, <<>>) /\ cur' = n + 1
      /\ doc' = doc /\ fiber' = fiber /\ frames' = frames /\ sent' = sent /\ rest' = rest
      /\ phase = "action" /\ phase' \in {"action", "cut", "failed"} /\ watch' # "asleep"
  BY DEF OrderInv, PartialInAction, ActionRan
<1>2. /\ bufs \in Seq(Seq(Text)) /\ n \in Nat /\ DOMAIN bufs = 1..n /\ 1 \in 1..n /\ <<>> \in Seq(Text)
  BY <1>1 DEF TypeOK
<1>3. (\A x \in 1..n : bufs'[x] = bufs[x]) /\ bufs'[n + 1] = <<>>
  BY <1>1, <1>2, AppendProperties
<1>4. /\ frames \in Seq(Frame) /\ Len(frames) \in Nat /\ DOMAIN frames = 1..Len(frames)
      /\ \A i \in 1..Len(frames) : /\ frames[i].out \in 1..n /\ frames[i].back \in 0..n
  BY <1>1 DEF TypeOK, Buffered
<1> HIDE DEF n
<1>5. Told'
  <2> SUFFICES ASSUME frames # <<>>
               PROVE  /\ WellFormed(frames, bufs') /\ frames[1].level = Top
                      /\ Accounted(frames, bufs', sent)
    BY <1>1, ToldKept
  <2>1. WellFormed(frames, bufs) /\ frames[1].level = Top /\ Accounted(frames, bufs, sent)
    BY <1>1 DEF Told
  <2>2. WellFormed(frames, bufs')
    <3>1. bufs' \in Seq(Seq(Text)) /\ Buffered(frames', bufs')
      BY DEF TypeOK, Buffered
    <3>2. Buffered(frames, bufs')
      BY <1>1, <3>1
    <3> QED BY <2>1, <3>1, <3>2 DEF WellFormed
  <2>3. PICK p, a : Account(p, a, frames, bufs, sent)
    BY <2>1 DEF Accounted
  <2>4. \A i \in 1..Len(frames) : bufs'[frames[i].out] = bufs[frames[i].out]
    BY <1>3, <1>4
  <2>5. bufs'[1] = bufs[1]
    BY <1>2, <1>3
  <2>6. Account(p, a, frames, bufs', sent)
    BY <2>3, <2>4, <2>5 DEF Account
  <2> QED BY <2>1, <2>2, <2>6 DEF Accounted
<1>6. SharedBy(frames, bufs', n + 1)
  <2>1. SharedBy(frames, bufs, cur)
    BY <1>1 DEF Shared
  <2>2. \A i \in 1..Len(frames) : frames[i].out <= n + 1
    BY <1>2, <1>4
  <2>3. \A i \in 1..Len(frames) : frames[i].back # 0 => bufs'[frames[i].back] = bufs[frames[i].back]
    BY <1>2, <1>3, <1>4
  <2>4. bufs'[1] = <<>> \/ (frames # <<>> /\ frames[1].out = 1)
    BY <1>2, <1>3, <2>1 DEF SharedBy
  <2>5. \A i \in 1..Len(frames) : frames[i].back # 0 =>
          /\ bufs'[frames[i].back] = <<>> /\ frames[i].back < frames[i].out
          /\ \A j \in 1..i - 1 : frames[j].out < frames[i].back
    BY <2>1, <2>3 DEF SharedBy
  <2> QED BY <1>3, <2>2, <2>4, <2>5 DEF SharedBy
<1>7. Shared'
  BY <1>1, <1>6 DEF Shared, SharedBy
<1>8. Control'
  <2>1. bufs'[1] = bufs[1]
    BY <1>2, <1>3
  <2> QED BY <1>1, <2>1, Undisturbed DEF Control
<1>9. Ended'
  BY <1>1, Undisturbed DEF Ended
<1> QED BY <1>5, <1>7, <1>8, <1>9 DEF OrderInv

(* The view is closed with all the document sent.                          *)
LEMMA CloseKeeps == OrderInv /\ TypeOK' /\ Close => OrderInv'
<1> SUFFICES ASSUME OrderInv, TypeOK', Close PROVE OrderInv'
  OBVIOUS
<1>1. /\ Control /\ Told /\ Shared /\ Ended /\ phase \in {"end", "render"} /\ fiber = "ended"
      /\ sent' = sent \o rest /\ phase' = "closed"
      /\ doc' = doc /\ fiber' = fiber /\ frames' = frames /\ bufs' = bufs /\ cur' = cur
      /\ watch' = watch
  BY DEF OrderInv, Close
<1>2. frames' = <<>>
  BY <1>1 DEF Control
<1>3. Told'
  BY <1>2 DEF Told
<1>4. Shared'
  BY <1>1 DEF Shared, SharedBy
<1>5. Control'
  BY <1>1, <1>2, Undisturbed DEF Control
<1>6. Ended'
  BY <1>1, Undisturbed DEF Ended
<1> QED BY <1>3, <1>4, <1>5, <1>6 DEF OrderInv

(* One step per action.                                                    *)
LEMMA OrderStep == OrderInv /\ [Next]_vars => OrderInv'
<1> SUFFICES ASSUME OrderInv, [Next]_vars PROVE OrderInv'
  OBVIOUS
<1>1. TypeOK'
  BY ViewStepType DEF OrderInv
<1>2. Control /\ Ended
  BY DEF OrderInv
<1>3. CASE New
  <2>1. /\ phase = "new" /\ fiber = "new" /\ doc' = doc /\ cur' = cur /\ sent' = sent /\ rest' = rest
        /\ IF Allowed THEN phase' \in {"action", "render"} ELSE phase' = "refused"
        /\ watch' # "asleep"
    BY <1>2, <1>3 DEF New, ActionRan, Control
  <2>2. CASE phase' = "render"
    <3>1. fiber' = "live" /\ Enter(Top, frames, bufs, cur, 0) /\ Allowed
      BY <1>3, <2>1, <2>2 DEF New, Begin
    <3> QED BY <1>1, <2>1, <2>2, <3>1, BeginKeeps
  <2>3. CASE phase' # "render"
    <3>1. fiber' = fiber /\ frames' = frames /\ bufs' = bufs
      BY <1>3, <2>3 DEF New
    <3>2. bufs[1] = <<>>
      BY <1>2, <2>1 DEF OrderInv, Shared, SharedBy, Control
    <3>3. Control'
      BY <1>2, <2>1, <2>3, <3>1, <3>2, Undisturbed DEF Control
    <3>4. phase' # "closed" /\ phase # "closed"
      BY <2>1
    <3> QED BY <1>1, <2>1, <3>1, <3>3, <3>4, IdleKeeps
  <2> QED BY <2>2, <2>3
<1>4. CASE Resume \/ End
  <2>1. /\ phase = "action" /\ doc' = doc /\ cur' = cur /\ sent' = sent /\ rest' = rest /\ Begin
        /\ phase' \in {"resume", "end", "failed"} /\ (fiber = "new" => phase' # "failed")
        /\ watch' # "asleep"
    BY <1>4 DEF Resume, End, ActionRan
  <2>2. Allowed
    BY <1>2, <2>1 DEF Control
  <2>3. CASE fiber = "new"
    <3>1. fiber' = "live" /\ Enter(Top, frames, bufs, cur, 0)
      BY <2>1, <2>3 DEF Begin
    <3>2. phase' \in {"resume", "end", "render"}
      BY <2>1, <2>3
    <3> QED BY <1>1, <2>1, <2>2, <2>3, <3>1, <3>2, BeginKeeps
  <2>4. CASE fiber # "new"
    <3>1. fiber' = fiber /\ frames' = frames /\ bufs' = bufs
      BY <2>1, <2>4 DEF Begin
    <3>2. Control'
      BY <1>2, <2>1, <2>2, <3>1, Undisturbed DEF Control
    <3>3. phase' # "closed" /\ phase # "closed"
      BY <2>1
    <3> QED BY <1>1, <2>1, <3>1, <3>2, <3>3, IdleKeeps
  <2> QED BY <2>3, <2>4
<1>5. CASE UNCHANGED vars
  <2>1. /\ doc' = doc /\ phase' = phase /\ fiber' = fiber /\ frames' = frames /\ bufs' = bufs
        /\ cur' = cur /\ sent' = sent /\ rest' = rest /\ watch' = watch
    BY <1>5 DEF vars
  <2>2. Control'
    BY <1>2, <2>1, Undisturbed DEF Control
  <2> QED BY <1>1, <2>1, <2>2, IdleKeeps
<1> QED BY <1>1, <1>3, <1>4, <1>5, PartialInActionKeeps, WriteKeeps, PauseKeeps, WakeKeeps, YieldKeeps,
           RunPartialKeeps, ReturnKeeps, CloseKeeps DEF Next, Over

(* What a template has before its item n.                                  *)
LEMMA BeforeIsUpto ==
  ASSUME doc \in Documents, NEW l \in 0..Top, NEW n \in 1..Len(At(l).items) + 1
  PROVE  Before(l, n) = Upto[l][n - 1] /\ Before(l, n) \in Seq(Text)
<1> DEFINE g == Upto[l]
           m == n - 1
           ss == [i \in 1..m |-> Piece(l, i, Contents)]
<1>1. /\ g \in [0..Len(At(l).items) -> Seq(Text)] /\ g[0] = <<>> /\ Len(At(l).items) \in Nat
      /\ \A i \in 1..Len(At(l).items) : /\ g[i] = g[i - 1] \o Piece(l, i, Contents)
                                       /\ Piece(l, i, Contents) \in Seq(Text)
  BY UptoUnfolds, Templates DEF Unfolds
<1>2. /\ m \in 0..Len(At(l).items) /\ m \in Nat
      /\ \A i \in 1..m : i \in 1..Len(At(l).items)
  BY <1>1
<1>3. Before(l, n) = FlattenSeq(ss)
  BY DEF Before, Piece
<1> HIDE DEF g, m
<1>4. ss \in Seq(Seq(Text)) /\ Len(ss) = m /\ \A i \in 1..m : ss[i] = Piece(l, i, Contents)
  BY <1>1, <1>2
<1> HIDE DEF ss
<1>5. PICK h \in [0..Len(ss) -> Seq(Text)] :
        /\ h[0] = <<>>
        /\ \A i \in 1..Len(ss) : h[i] = h[i - 1] \o ss[i]
        /\ h[Len(ss)] = FlattenSeq(ss)
  BY <1>4, FlattenFacts
<1> DEFINE Bad == {i \in 0..m : h[i] # g[i]}
<1>6. Bad = {}
  <2> SUFFICES ASSUME Bad # {} PROVE FALSE
    OBVIOUS
  <2>1. Bad \in SUBSET Nat
    BY <1>2
  <2>2. PICK i \in Bad : \A j \in Bad : i <= j
    BY <2>1, LeastExists
  <2>3. i \in 0..m /\ h[i] # g[i]
    OBVIOUS
  <2>4. i # 0
    BY <1>1, <1>5, <2>3
  <2>5. i \in 1..m /\ i - 1 \in 0..m /\ i - 1 \notin Bad
    BY <1>2, <2>2, <2>3, <2>4
  <2>6. h[i - 1] = g[i - 1]
    BY <2>5
  <2>7. h[i] = h[i - 1] \o Piece(l, i, Contents) /\ g[i] = g[i - 1] \o Piece(l, i, Contents)
    BY <1>1, <1>2, <1>4, <1>5, <2>5
  <2> QED BY <2>3, <2>6, <2>7
<1>7. m \in 0..m
  BY <1>2
<1>8. h[m] = g[m] /\ g[m] \in Seq(Text)
  BY <1>1, <1>2, <1>6, <1>7
<1> QED BY <1>3, <1>4, <1>5, <1>8 DEF g, m

(* With nothing in the stream's own buffer, what was sent is what the      *)
(* templates that write to it have written.                                *)
LEMMA ShownAccount ==
  ASSUME doc \in Documents, WellFormed(frames, bufs), Accounted(frames, bufs, sent),
         bufs[1] = <<>>
  PROVE  sent = Shown
<1> DEFINE k == Len(frames)
           out(i) == frames[i].out
           Part(i) == IF frames[i].out # 1 THEN <<>>
                      ELSE Before(frames[i].level, IF i = k THEN frames[i].next ELSE frames[i].next - 1)
           ss == [i \in DOMAIN frames |-> Part(i)]
<1>1. PICK p, a : Account(p, a, frames, bufs, sent)
  BY DEF Accounted
<1>2. /\ k \in Nat \ {0} /\ DOMAIN frames = 1..k /\ k \in 1..k /\ 1 \in 1..k
      /\ \A i \in 1..k : out(i) \in Nat \ {0}
      /\ \A i, j \in 1..k : i <= j => out(i) <= out(j)
  <2>1. k \in Nat \ {0} /\ DOMAIN frames = 1..k /\ \A i \in 1..k : out(i) \in Nat \ {0}
    BY WellFormedFacts
  <2>2. \A i, j \in 1..k : i <= j => out(i) <= out(j)
    BY DEF WellFormed
  <2> QED BY <2>1, <2>2
<1>3. /\ p \in [1..k + 1 -> Seq(Text)] /\ a \in [1..k -> Seq(Text)] /\ p[1] = sent /\ a[1] = <<>>
      /\ \A i \in 1..k : p[i + 1] = IF Covered(frames, i) THEN p[i] ELSE p[i] \o bufs[out(i)]
      /\ \A i \in 1..k + 1 : IF i <= k /\ out(i) = 1 THEN p[i] = sent ELSE Begins(sent \o bufs[1], p[i])
      /\ \A i \in 1..k - 1 : a[i + 1] = a[i] \o Upto[frames[i].level][frames[i].next - 2]
      /\ p[k + 1] = a[k] \o Upto[frames[k].level][frames[k].next - 1]
      /\ \A i \in 1..k : Apart(frames, i) => p[i] = a[i]
  BY <1>1 DEF Account
<1>4. ASSUME NEW i \in 1..k
      PROVE  /\ Part(i) \in Seq(Text)
             /\ out(i) = 1 /\ i # k => Part(i) = Upto[frames[i].level][frames[i].next - 2]
             /\ out(i) = 1 /\ i = k => Part(i) = Upto[frames[i].level][frames[i].next - 1]
  <2> DEFINE l == frames[i].level
             n == frames[i].next
  <2>1. l \in 0..Top /\ n \in 1..Len(At(l).items) + 1
    BY DEF WellFormed
  <2>2. n \in Nat /\ Len(At(l).items) \in Nat /\ n <= Len(At(l).items) + 1
    BY <2>1, Templates
  <2>3. i # k => n >= 2
    <3> SUFFICES ASSUME i # k PROVE n >= 2
      OBVIOUS
    <3>1. i \in 1..k - 1
      <4>1. k \in Nat
        BY <1>2
      <4> QED BY <4>1
    <3> QED BY <3>1 DEF WellFormed, Called
  <2> HIDE DEF l, n
  <2>4. CASE i = k
    <3>1. Before(l, n) = Upto[l][n - 1] /\ Before(l, n) \in Seq(Text)
      BY <2>1, BeforeIsUpto
    <3> QED BY <2>4, <3>1 DEF l, n
  <2>5. CASE i # k
    <3>1. n - 1 \in 1..Len(At(l).items) + 1 /\ (n - 1) - 1 = n - 2
      BY <2>2, <2>3, <2>5
    <3>2. Before(l, n - 1) = Upto[l][(n - 1) - 1] /\ Before(l, n - 1) \in Seq(Text)
      BY <2>1, <3>1, BeforeIsUpto
    <3> QED BY <2>5, <3>1, <3>2 DEF l, n
  <2> QED BY <2>4, <2>5
<1>5. Shown = FlattenSeq(ss)
  BY DEF Shown
<1>6. \A i \in 1..k : out(i) # 1 => Part(i) = <<>>
  OBVIOUS
<1> HIDE DEF Part
<1>7. ss \in Seq(Seq(Text)) /\ Len(ss) = k /\ \A i \in 1..k : ss[i] = Part(i)
  <2>1. ss = [i \in 1..k |-> Part(i)]
    BY <1>2
  <2> HIDE DEF ss, k
  <2>2. \A i \in 1..k : Part(i) \in Seq(Text)
    BY <1>4
  <2> QED BY <1>2, <2>1, <2>2
<1> HIDE DEF ss, k
<1>8. PICK g \in [0..Len(ss) -> Seq(Text)] :
        /\ g[0] = <<>>
        /\ \A i \in 1..Len(ss) : g[i] = g[i - 1] \o ss[i]
        /\ g[Len(ss)] = FlattenSeq(ss)
  BY <1>7, FlattenFacts
<1>9. \A i \in 1..k : g[i - 1] \in Seq(Text) /\ g[i] = g[i - 1] \o Part(i)
  <2>1. \A i \in 1..k : i - 1 \in 0..k
    BY <1>2
  <2> QED BY <1>7, <1>8, <2>1
<1>10. \A i \in 1..k + 1 : p[i] \in Seq(Text)
  BY <1>3
<1>11. sent \in Seq(Text) /\ sent \o <<>> = sent
  <2>1. 1 \in 1..k + 1
    BY <1>2
  <2>2. sent \in Seq(Text)
    BY <1>3, <1>10, <2>1
  <2> QED BY <2>2, ConcatEmptySeq
(* Up to the last template with the stream's own buffer it is the document *)
(* before the next one, and then nothing is added.                         *)
<1> DEFINE Good(i) == IF i = 0 \/ out(i) = 1 THEN i < k => g[i] = a[i + 1] ELSE g[i] = sent
           Bad == {i \in 0..k : ~Good(i)}
<1>12. ASSUME NEW i \in 1..k, Good(i - 1) PROVE Good(i)
  <2>1. i # 0 /\ i - 1 < k /\ (i - 1) + 1 = i /\ i \in 1..k + 1 /\ i <= k
    BY <1>2
  <2>2. CASE out(i) = 1
    <3>1. i - 1 = 0 \/ out(i - 1) = 1
      <4> SUFFICES ASSUME i - 1 # 0 PROVE out(i - 1) = 1
        OBVIOUS
      <4>1. i - 1 \in 1..k /\ i - 1 <= i
        BY <1>2
      <4>2. out(i - 1) <= out(i) /\ out(i - 1) \in Nat \ {0}
        BY <1>2, <4>1
      <4> QED BY <2>2, <4>2
    <3>2. g[i - 1] = a[i]
      BY <1>12, <2>1, <3>1
    <3>3. ASSUME i < k PROVE g[i] = a[i + 1]
      <4>1. i \in 1..k - 1 /\ i # k
        BY <1>2, <3>3
      <4>2. Part(i) = Upto[frames[i].level][frames[i].next - 2]
        BY <1>4, <2>2, <4>1
      <4> QED BY <1>3, <1>9, <3>2, <4>1, <4>2
    <3> QED BY <2>1, <2>2, <3>3
  <2>3. CASE out(i) # 1
    <3>1. g[i] = g[i - 1]
      <4>1. g[i - 1] \in Seq(Text) /\ g[i] = g[i - 1] \o <<>>
        BY <1>6, <1>9, <2>3
      <4> QED BY <4>1, ConcatEmptySeq
    <3>2. CASE i = 1
      <4>1. Apart(frames, 1)
        BY <2>3, <3>2 DEF Apart
      <4>2. p[1] = a[1]
        BY <1>2, <1>3, <4>1
      <4>3. g[0] = <<>> /\ a[1] = <<>> /\ p[1] = sent
        BY <1>3, <1>8
      <4>4. g[i] = sent
        BY <3>1, <3>2, <4>2, <4>3
      <4> QED BY <2>1, <2>3, <4>4
    <3>3. CASE i # 1 /\ out(i - 1) = 1
      <4>1. /\ i - 1 \in 1..k /\ i - 1 \in 1..k + 1 /\ i - 1 <= k /\ i > 1
        BY <1>2, <3>3
      <4>2. Apart(frames, i) /\ ~Covered(frames, i - 1)
        BY <2>1, <2>3, <3>3, <4>1 DEF Apart, Covered
      <4>3. p[i] = a[i]
        BY <1>3, <4>2
      <4>4. p[i] = p[i - 1] \o bufs[1] /\ p[i - 1] = sent
        BY <1>3, <2>1, <3>3, <4>1, <4>2
      <4>5. g[i - 1] = a[i]
        BY <1>12, <2>1, <3>3
      <4> QED BY <1>11, <2>1, <2>3, <3>1, <4>3, <4>4, <4>5
    <3>4. CASE i # 1 /\ out(i - 1) # 1
      <4>1. i - 1 # 0
        BY <3>4
      <4>2. g[i - 1] = sent
        BY <1>12, <3>4, <4>1
      <4> QED BY <2>1, <2>3, <3>1, <4>2
    <3> QED BY <3>2, <3>3, <3>4
  <2> QED BY <2>2, <2>3
<1>13. Good(0)
  <2>1. g[0] = <<>>
    BY <1>8
  <2>2. a[1] = <<>>
    BY <1>3
  <2>3. 0 + 1 = 1
    OBVIOUS
  <2> QED BY <2>1, <2>2, <2>3
<1> HIDE DEF Good
<1>14. Bad = {}
  <2> SUFFICES ASSUME Bad # {} PROVE FALSE
    OBVIOUS
  <2>1. Bad \in SUBSET Nat
    BY <1>2
  <2>2. PICK i \in Bad : \A j \in Bad : i <= j
    BY <2>1, LeastExists
  <2>3. i \in 0..k /\ ~Good(i)
    OBVIOUS
  <2>4. i # 0
    BY <1>13, <2>3
  <2>5. i \in 1..k /\ i - 1 \in 0..k /\ i - 1 \notin Bad
    BY <1>2, <2>2, <2>3, <2>4
  <2>6. Good(i - 1)
    BY <2>5
  <2> QED BY <1>12, <2>3, <2>5, <2>6
<1>15. Good(k) /\ Good(k - 1) /\ k # 0 /\ k - 1 < k /\ (k - 1) + 1 = k
  <2>1. k \in 0..k /\ k - 1 \in 0..k
    BY <1>2
  <2>2. ASSUME NEW i \in 0..k PROVE Good(i)
    BY <1>14
  <2>3. Good(k) /\ Good(k - 1)
    BY <2>1, <2>2
  <2>4. k # 0 /\ k - 1 < k /\ (k - 1) + 1 = k
    BY <1>2
  <2> QED BY <2>3, <2>4
<1>16. g[k] = sent
  <2>1. CASE out(k) # 1
    BY <1>15, <2>1 DEF Good
  <2>2. CASE out(k) = 1
    <3>1. k - 1 = 0 \/ out(k - 1) = 1
      <4> SUFFICES ASSUME k - 1 # 0 PROVE out(k - 1) = 1
        OBVIOUS
      <4>1. k - 1 \in 1..k /\ k - 1 <= k
        BY <1>2
      <4>2. out(k - 1) <= out(k) /\ out(k - 1) \in Nat \ {0}
        BY <1>2, <4>1
      <4> QED BY <2>2, <4>2
    <3>2. g[k - 1] = a[k]
      BY <1>15, <3>1 DEF Good
    <3>3. Part(k) = Upto[frames[k].level][frames[k].next - 1]
      BY <1>2, <1>4, <2>2
    <3>4. g[k] = p[k + 1]
      BY <1>2, <1>3, <1>9, <3>2, <3>3
    <3>5. ~Covered(frames, k) /\ k <= k /\ k \in 1..k + 1
      BY <1>2 DEF Covered, k
    <3>6. p[k + 1] = p[k] \o bufs[1] /\ p[k] = sent
      BY <1>2, <1>3, <2>2, <3>5
    <3> QED BY <1>11, <3>4, <3>6
  <2> QED BY <2>1, <2>2
<1> QED BY <1>5, <1>7, <1>8, <1>16

(* What is sent begins the document in every state of the stream.          *)
LEMMA OrderInOrder == OrderInv => InOrder
<1> SUFFICES ASSUME OrderInv PROVE IsPrefix(sent, Content)
  BY DEF InOrder
<1>1. TypeOK /\ Control /\ Told /\ Ended /\ doc \in Documents /\ sent \in Seq(Text) /\ rest \in Seq(Text)
  BY DEF OrderInv, TypeOK
<1>2. Content \in Seq(Text)
  <2>1. Top \in 0..Top
    BY <1>1, Templates
  <2> QED BY <1>1, <2>1, ContentFacts DEF Content
<1>3. CASE fiber = "live"
  <2>1. WellFormed(frames, bufs) /\ frames[1].level = Top /\ Accounted(frames, bufs, sent)
    BY <1>1, <1>3 DEF Control, Told
  <2> QED BY <1>1, <2>1, AccountedFacts
<1>4. CASE fiber = "new"
  <2>1. sent = <<>> /\ <<>> \in Seq(Text) /\ <<>> \o Content = Content
    BY <1>1, <1>2, <1>4, ConcatEmptySeq DEF Control
  <2>2. Begins(<<>>, <<>> \o Content)
    BY <1>2, <2>1, BeginsFacts
  <2> QED BY <1>2, <2>1, <2>2, BeginsFacts
<1>5. CASE fiber = "ended"
  <2>1. sent = Content \/ sent \o rest = Content
    BY <1>1, <1>5 DEF Ended
  <2>2. Begins(sent, sent) /\ Begins(sent, sent \o rest)
    <3>1. sent \in Seq(Text) /\ rest \in Seq(Text)
      BY <1>1
    <3> QED BY <3>1, BeginsFacts
  <2>3. Begins(sent, Content)
    BY <2>1, <2>2
  <2> QED BY <1>1, <1>2, <2>3, BeginsFacts
<1> QED BY <1>1, <1>3, <1>4, <1>5 DEF TypeOK

(* What a stream sends, in its parts and with its rest, comes in the order *)
(* of the document and none of it twice: for all templates and layouts,    *)
(* wherever they pause, whichever of them share a buffer, and whatever     *)
(* partials the action renders in between.                                 *)
THEOREM InOrderAlways == Spec => []InOrder
<1>1. OrderInv => InOrder
  BY OrderInOrder
<1> QED BY <1>1, OrderInit, OrderStep, PTL DEF Spec

(* A document that is closed was sent as a whole, as a stream or at once.  *)
THEOREM WholeAlways == Spec => []Whole
<1>1. OrderInv => Whole
  BY DEF OrderInv, Ended, Whole
<1> QED BY <1>1, OrderInit, OrderStep, PTL DEF Spec

(* When a stream is back in its action, what was sent is all that the      *)
(* templates with the stream's own buffer have written, and no more: for   *)
(* all templates and layouts, wherever they pause or sleep, also in a      *)
(* layout's or a partial's middle, and whatever the action rendered before.*)
THEOREM PauseSendsAllAlways == Spec => []PauseSendsAll
<1>1. OrderInv => PauseSendsAll
  <2> SUFFICES ASSUME OrderInv, phase = "action", fiber = "live" PROVE sent = Shown
    BY DEF PauseSendsAll
  <2>1. doc \in Documents /\ WellFormed(frames, bufs) /\ Accounted(frames, bufs, sent) /\ bufs[1] = <<>>
    BY DEF OrderInv, TypeOK, Control, Told
  <2> QED BY <2>1, ShownAccount
<1> QED BY <1>1, OrderInit, OrderStep, PTL DEF Spec
=============================================================================
