--------------------------- MODULE LibraryProofs ---------------------------
(***************************************************************************)
(* Records, images and cascades of the library, for any tree of records    *)
(* and any number of invocations and runs.                                 *)
(***************************************************************************)
EXTENDS Library, SequenceTheorems, TLAPS

----------------------------------------------------------------------------
(* Stacks of activations *)

Popped(s, t) ==
    /\ t \in Seq(Frame) /\ Len(t) = Len(s) - 1
    /\ \A n \in 1..Len(t) : t[n] = s[n]

Retopped(s, t, g) ==
    /\ t \in Seq(Frame) /\ Len(t) = Len(s) /\ t[Len(s)] = g
    /\ \A n \in 1..(Len(s) - 1) : t[n] = s[n]

Pushed(s, t, g, h) ==
    /\ t \in Seq(Frame) /\ Len(t) = Len(s) + 1
    /\ t[Len(s)] = g /\ t[Len(s) + 1] = h
    /\ \A n \in 1..(Len(s) - 1) : t[n] = s[n]

LEMMA StackTop ==
  ASSUME NEW s \in Seq(Frame), s # << >>
  PROVE  Len(s) \in Nat \ {0} /\ s[Len(s)] \in Frame
<1>1. Len(s) \in Nat \ {0}
  BY LenProperties, EmptySeq
<1>2. s \in [1..Len(s) -> Frame]
  BY LenProperties
<1> QED BY <1>1, <1>2

LEMMA StackBelow ==
  ASSUME NEW s \in Seq(Frame), s # << >>
  PROVE  Popped(s, SubSeq(s, 1, Len(s) - 1))
<1>1. PICK k \in Nat \ {0} : k = Len(s)
  BY StackTop
<1>2. \A i \in 1..(k - 1) : s[i] \in Frame
  BY <1>1, ElementOfSeq
<1>3. /\ SubSeq(s, 1, k - 1) \in Seq(Frame)
      /\ Len(SubSeq(s, 1, k - 1)) = IF 1 <= k - 1 THEN (k - 1) - 1 + 1 ELSE 0
      /\ \A n \in 1..((k - 1) - 1 + 1) : SubSeq(s, 1, k - 1)[n] = s[1 + n - 1]
  BY <1>2, SubSeqProperties
<1>4. Len(SubSeq(s, 1, k - 1)) = k - 1
  BY <1>3
<1>5. \A n \in 1..(k - 1) : SubSeq(s, 1, k - 1)[n] = s[n]
  BY <1>3
<1> QED BY <1>1, <1>3, <1>4, <1>5 DEF Popped

LEMMA StackRetopped ==
  ASSUME NEW s \in Seq(Frame), s # << >>, NEW g \in Frame
  PROVE  Retopped(s, Append(SubSeq(s, 1, Len(s) - 1), g), g)
<1> DEFINE b == SubSeq(s, 1, Len(s) - 1)
<1>1. Len(s) \in Nat \ {0} /\ Popped(s, b)
  BY StackTop, StackBelow
<1>2. b \in Seq(Frame) /\ Len(b) = Len(s) - 1 /\ \A n \in 1..(Len(s) - 1) : b[n] = s[n]
  BY <1>1 DEF Popped
<1> HIDE DEF b
<1>3. /\ Append(b, g) \in Seq(Frame) /\ Len(Append(b, g)) = Len(b) + 1
      /\ \A n \in 1..Len(b) : Append(b, g)[n] = b[n]
      /\ Append(b, g)[Len(b) + 1] = g
  BY <1>2, AppendProperties
<1>4. Retopped(s, Append(b, g), g)
  BY <1>1, <1>2, <1>3 DEF Retopped
<1> QED BY <1>4 DEF b

LEMMA StackPushed ==
  ASSUME NEW s \in Seq(Frame), s # << >>, NEW g \in Frame, NEW h \in Frame
  PROVE  Pushed(s, SubSeq(s, 1, Len(s) - 1) \o <<g, h>>, g, h)
<1> DEFINE b == SubSeq(s, 1, Len(s) - 1)
           a == <<g, h>>
<1>1. Len(s) \in Nat \ {0} /\ Popped(s, b)
  BY StackTop, StackBelow
<1>2. b \in Seq(Frame) /\ Len(b) = Len(s) - 1 /\ \A n \in 1..(Len(s) - 1) : b[n] = s[n]
  BY <1>1 DEF Popped
<1>3. a \in Seq(Frame) /\ Len(a) = 2 /\ a[1] = g /\ a[2] = h
  OBVIOUS
<1> HIDE DEF a, b
<1>c. /\ b \o a \in Seq(Frame) /\ Len(b \o a) = Len(b) + Len(a)
      /\ \A n \in 1..(Len(b) + Len(a)) :
           (b \o a)[n] = IF n <= Len(b) THEN b[n] ELSE a[n - Len(b)]
  BY <1>2, <1>3, ConcatProperties
<1>4. /\ b \o a \in Seq(Frame) /\ Len(b \o a) = Len(b) + 2
      /\ \A n \in 1..(Len(b) + 2) :
           (b \o a)[n] = IF n <= Len(b) THEN b[n] ELSE a[n - Len(b)]
  BY <1>3, <1>c
<1>5. (b \o a)[Len(s)] = a[1] /\ (b \o a)[Len(s) + 1] = a[2]
  BY <1>1, <1>2, <1>4
<1>6. \A n \in 1..(Len(s) - 1) : (b \o a)[n] = s[n]
  BY <1>1, <1>2, <1>4
<1>7. Pushed(s, b \o a, g, h)
  BY <1>1, <1>2, <1>3, <1>4, <1>5, <1>6 DEF Pushed
<1> QED BY <1>7 DEF a, b

LEMMA StackStarted ==
  ASSUME NEW g \in Frame
  PROVE  <<g>> \in Seq(Frame) /\ Len(<<g>>) = 1 /\ <<g>>[1] = g
  OBVIOUS

----------------------------------------------------------------------------
(* The tree *)

LEMMA KindFacts ==
  ASSUME NEW i \in Item
  PROVE  /\ Kind[i] \in Kinds /\ Kind[i] # None
         /\ Stages(i) \in 0..2 /\ (IsImage(i) => Stages(i) = 0)
         /\ InferredType(i) \in {None, Kind[i]}
         /\ IsImage(i) => InferredType(i) = Kind[i]
<1>1. Kind[i] \in Kinds /\ Kind[i] # None
  BY TreeAssumption
<1>2. CASE Kind[i] = "category"
  BY <1>1, <1>2 DEF Stages, ChildKinds, IsImage, ImageKinds, InferredType, inferEntityType, Attributes
<1>3. CASE Kind[i] = "deck"
  BY <1>1, <1>3 DEF Stages, ChildKinds, IsImage, ImageKinds, InferredType, inferEntityType, Attributes
<1>4. CASE Kind[i] = "card"
  BY <1>1, <1>4 DEF Stages, ChildKinds, IsImage, ImageKinds, InferredType, inferEntityType, Attributes
<1>5. CASE Kind[i] = "section"
  BY <1>1, <1>5 DEF Stages, ChildKinds, IsImage, ImageKinds, InferredType, inferEntityType, Attributes
<1>6. CASE Kind[i] = "questionImage"
  BY <1>1, <1>6 DEF Stages, ChildKinds, IsImage, ImageKinds, InferredType, inferEntityType, Attributes
<1>7. CASE Kind[i] = "sectionImage"
  BY <1>1, <1>7 DEF Stages, ChildKinds, IsImage, ImageKinds, InferredType, inferEntityType, Attributes
<1> QED BY <1>1, <1>2, <1>3, <1>4, <1>5, <1>6, <1>7 DEF Kinds

----------------------------------------------------------------------------
(* How a step of a cascade moves its stack *)

Cascades == dw \in [DeleteWorker -> DeleteLocal]

\* Cascade d takes its step and no other cascade does.
OnlyCascade(d) == Cascades' /\ \A c \in DeleteWorker \ {d} : dw'[c] = dw[c]

LEMMA StackMoves ==
  ASSUME Cascades, NEW d \in DeleteWorker, NEW stack \in Seq(Frame),
         dw' = WithStack(d, stack)
  PROVE  OnlyCascade(d) /\ dw'[d].stack = stack
<1>l. PICK l \in DeleteLocal : l = dw[d]
  BY DEF Cascades
<1>m. PICK m : m = [l EXCEPT !.stack = stack]
  OBVIOUS
<1>1. m \in DeleteLocal /\ m.stack = stack
  BY <1>m DEF DeleteLocal
<1>2. dw' = [dw EXCEPT ![d] = m]
  BY <1>l, <1>m DEF WithStack, Cascades
<1> QED BY <1>1, <1>2 DEF OnlyCascade, Cascades

LEMMA EndMoves ==
  ASSUME Cascades, NEW d \in DeleteWorker, NEW status \in Status,
         dw' = [dw EXCEPT ![d] = [IdleDelete EXCEPT !.status = status]]
  PROVE  OnlyCascade(d) /\ dw'[d].stack = << >>
<1>m. PICK m : m = [IdleDelete EXCEPT !.status = status]
  OBVIOUS
<1>1. m \in DeleteLocal /\ m.stack = << >>
  <2>1. << >> \in Seq(Frame)
    BY EmptySeq
  <2> QED BY <1>m, <2>1, ZenonT(60) DEF IdleDelete, DeleteLocal
<1>2. dw' = [dw EXCEPT ![d] = m]
  BY <1>m
<1> QED BY <1>1, <1>2 DEF OnlyCascade, Cascades

LEMMA AbortMoves ==
  ASSUME Cascades, NEW d \in DeleteWorker, dw' = Abort(d)
  PROVE  OnlyCascade(d) /\ dw'[d].stack = << >>
<1>1. 500 \in Status
  BY DEF Status
<1> QED BY <1>1, EndMoves DEF Abort

LEMMA RunningStack ==
  ASSUME Cascades, NEW d \in DeleteWorker, Running(d)
  PROVE  /\ dw[d].stack \in Seq(Frame) /\ dw[d].stack # << >>
         /\ Len(dw[d].stack) \in Nat \ {0}
         /\ Top(d) \in Frame /\ Top(d) = dw[d].stack[Len(dw[d].stack)]
<1>1. dw[d].stack \in Seq(Frame) /\ dw[d].stack # << >>
  BY DEF Cascades, DeleteLocal, Running
<1> QED BY <1>1, StackTop DEF Top

LEMMA ReturnMoves ==
  ASSUME Cascades, NEW d \in DeleteWorker, Running(d), NEW found \in BOOLEAN,
         dw' = Return(d, found)
  PROVE  OnlyCascade(d) /\ Popped(dw[d].stack, dw'[d].stack)
<1>1. dw[d].stack \in Seq(Frame) /\ dw[d].stack # << >> /\ Len(dw[d].stack) \in Nat
  BY RunningStack
<1>2. CASE Len(dw[d].stack) = 1
  <2>1. PICK status : status = IF found THEN 200 ELSE 404
    OBVIOUS
  <2>2. status \in Status /\ << >> \in Seq(Frame)
    BY <2>1 DEF Status
  <2>3. dw' = [dw EXCEPT ![d] = [IdleDelete EXCEPT !.status = status]]
    BY <1>2, <2>1 DEF Return
  <2>4. OnlyCascade(d) /\ dw'[d].stack = << >>
    BY <2>2, <2>3, EndMoves
  <2> QED BY <1>2, <2>2, <2>4 DEF Popped
<1>3. CASE Len(dw[d].stack) # 1
  <2>1. Popped(dw[d].stack, Below(d))
    BY <1>1, StackBelow DEF Below
  <2>2. dw' = WithStack(d, Below(d))
    BY <1>3 DEF Return
  <2> QED BY <2>1, <2>2, StackMoves DEF Popped
<1> QED BY <1>2, <1>3

LEMMA RetopMoves ==
  ASSUME Cascades, NEW d \in DeleteWorker, Running(d), NEW g \in Frame,
         dw' = WithStack(d, Append(Below(d), g))
  PROVE  OnlyCascade(d) /\ Retopped(dw[d].stack, dw'[d].stack, g)
<1>1. Retopped(dw[d].stack, Append(Below(d), g), g)
  BY RunningStack, StackRetopped DEF Below
<1>2. Append(Below(d), g) \in Seq(Frame)
  BY <1>1 DEF Retopped
<1> QED BY <1>1, <1>2, StackMoves

LEMMA PushMoves ==
  ASSUME Cascades, NEW d \in DeleteWorker, Running(d), NEW g \in Frame, NEW h \in Frame,
         dw' = WithStack(d, Below(d) \o <<g, h>>)
  PROVE  OnlyCascade(d) /\ Pushed(dw[d].stack, dw'[d].stack, g, h)
<1>1. Pushed(dw[d].stack, Below(d) \o <<g, h>>, g, h)
  BY RunningStack, StackPushed DEF Below
<1>2. Below(d) \o <<g, h>> \in Seq(Frame)
  BY <1>1 DEF Pushed
<1> QED BY <1>1, <1>2, StackMoves

LEMMA ActivationFields ==
  ASSUME NEW i \in Item
  PROVE  /\ Activation(i) \in Frame /\ Activation(i).item = i /\ Activation(i).stage = 0
         /\ Activation(i).todo = {} /\ Activation(i).seen = {}
  BY DEF Activation, Frame

\* The activation on top has no child left to delete and lists the next kind.
Listed(f, g, found) ==
    /\ g.item = f.item /\ g.stage = f.stage + 1 /\ g.stage <= Stages(f.item)
    /\ f.todo = {} /\ g.todo = found /\ g.seen = f.seen \cup found
    /\ found \subseteq index /\ found \subseteq {i \in Item : Parent[i] = f.item}
    /\ Untyped = {} =>
         \A i \in index :
            Parent[i] = f.item /\ type[i] = Kind[i] /\ Kind[i] = ChildKinds[Kind[f.item]][g.stage]
              => i \in found

LEMMA ListMoves ==
  ASSUME Cascades, index \subseteq Item, NEW d \in DeleteWorker, ListChildren(d)
  PROVE  /\ OnlyCascade(d) /\ Running(d)
         /\ \E g \in Frame : \E found : /\ Retopped(dw[d].stack, dw'[d].stack, g)
                                         /\ Listed(Top(d), g, found)
<1>r. Running(d)
  BY DEF ListChildren
<1>f. PICK f \in Frame : f = Top(d)
  BY <1>r, RunningStack
<1>n. PICK n : n = f.stage + 1
  OBVIOUS
<1>1. /\ f.todo = {} /\ n <= Stages(f.item)
      /\ \E hidden \in SUBSET Untyped : dw' = WithStack(d, Append(Below(d),
           [f EXCEPT !.stage = n, !.todo = Children(f.item, n, hidden),
                     !.seen = @ \cup Children(f.item, n, hidden)]))
  BY <1>f, <1>n, Zenon DEF ListChildren
<1>2. PICK hidden \in SUBSET Untyped : dw' = WithStack(d, Append(Below(d),
           [f EXCEPT !.stage = n, !.todo = Children(f.item, n, hidden),
                     !.seen = @ \cup Children(f.item, n, hidden)]))
  BY <1>1
<1>3. PICK found : found = Children(f.item, n, hidden)
  OBVIOUS
<1>4. PICK g : g = [f EXCEPT !.stage = n, !.todo = found, !.seen = @ \cup found]
  OBVIOUS
<1>5. dw' = WithStack(d, Append(Below(d), g))
  BY <1>2, <1>3, <1>4
<1>6. /\ found \in SUBSET Item /\ found \subseteq index
      /\ found \subseteq {i \in Item : Parent[i] = f.item}
  BY <1>3 DEF Children
<1>7. n \in 0..2
  <2>1. f.stage \in 0..2 /\ f.item \in Item
    BY DEF Frame
  <2> QED BY <1>1, <1>n, <2>1, KindFacts
<1>8. /\ g \in Frame /\ g.item = f.item /\ g.stage = n /\ g.todo = found
      /\ g.seen = f.seen \cup found
  BY <1>4, <1>6, <1>7 DEF Frame
<1>9. Listed(f, g, found)
  <2>1. ASSUME Untyped = {}, NEW i \in index, Parent[i] = f.item, type[i] = Kind[i],
               Kind[i] = ChildKinds[Kind[f.item]][n]
        PROVE  i \in found
    BY <1>3, <2>1 DEF Children
  <2>2. Untyped = {} =>
          \A i \in index :
            Parent[i] = f.item /\ type[i] = Kind[i] /\ Kind[i] = ChildKinds[Kind[f.item]][g.stage]
              => i \in found
    BY <1>8, <2>1
  <2>3. g.stage = f.stage + 1 /\ g.stage <= Stages(f.item)
    BY <1>1, <1>8, <1>n
  <2> QED BY <1>1, <1>6, <1>8, <2>2, <2>3 DEF Listed
<1> QED BY <1>r, <1>f, <1>5, <1>8, <1>9, RetopMoves

LEMMA ChildMoves ==
  ASSUME Cascades, NEW d \in DeleteWorker, DeleteChild(d)
  PROVE  /\ OnlyCascade(d) /\ Running(d)
         /\ \E i \in Top(d).todo, g \in Frame :
              /\ i \in Item /\ Pushed(dw[d].stack, dw'[d].stack, g, Activation(i))
              /\ g.item = Top(d).item /\ g.stage = Top(d).stage
              /\ g.todo = Top(d).todo \ {i} /\ g.seen = Top(d).seen
<1>r. Running(d)
  BY DEF DeleteChild
<1>f. PICK f \in Frame : f = Top(d)
  BY <1>r, RunningStack
<1>1. PICK i \in f.todo :
        dw' = WithStack(d, Below(d) \o <<[f EXCEPT !.todo = @ \ {i}], Activation(i)>>)
  BY <1>f DEF DeleteChild
<1>2. PICK g : g = [f EXCEPT !.todo = @ \ {i}]
  OBVIOUS
<1>3. i \in Item
  BY DEF Frame
<1>4. /\ g \in Frame /\ g.item = f.item /\ g.stage = f.stage
      /\ g.todo = f.todo \ {i} /\ g.seen = f.seen
  BY <1>2 DEF Frame
<1>5. Activation(i) \in Frame /\ dw' = WithStack(d, Below(d) \o <<g, Activation(i)>>)
  BY <1>1, <1>2, <1>3, ActivationFields
<1>6. OnlyCascade(d) /\ Pushed(dw[d].stack, dw'[d].stack, g, Activation(i))
  BY <1>r, <1>4, <1>5, PushMoves
<1> QED BY <1>r, <1>f, <1>1, <1>3, <1>4, <1>6

\* An image moves on to its next stage.
NextStage(f, g, n) ==
    /\ g.item = f.item /\ g.stage = n /\ g.todo = f.todo /\ g.seen = f.seen

LEMMA StageMoves ==
  ASSUME Cascades, NEW d \in DeleteWorker, Running(d), NEW n \in 0..2,
         dw' = WithStack(d, Append(Below(d), [Top(d) EXCEPT !.stage = n]))
  PROVE  /\ OnlyCascade(d)
         /\ \E g \in Frame : /\ Retopped(dw[d].stack, dw'[d].stack, g)
                             /\ NextStage(Top(d), g, n)
<1>f. PICK f \in Frame : f = Top(d)
  BY RunningStack
<1>1. PICK g : g = [f EXCEPT !.stage = n]
  OBVIOUS
<1>2. g \in Frame /\ NextStage(f, g, n)
  BY <1>1 DEF Frame, NextStage
<1> QED BY <1>f, <1>1, <1>2, RetopMoves

LEMMA StartMoves ==
  ASSUME Cascades, born \subseteq Item, NEW d \in DeleteWorker, ReceiveDelete(d)
  PROVE  OnlyCascade(d) /\ \E i \in Item : dw'[d].stack = <<Activation(i)>>
<1>1. PICK i \in born :
        dw' = [dw EXCEPT ![d] = [IdleDelete EXCEPT !.stack = <<Activation(i)>>, !.root = i]]
  BY DEF ReceiveDelete
<1>2. PICK m : m = [IdleDelete EXCEPT !.stack = <<Activation(i)>>, !.root = i]
  OBVIOUS
<1>3. <<Activation(i)>> \in Seq(Frame) /\ i \in Item
  BY ActivationFields, StackStarted
<1>4. m \in DeleteLocal /\ m.stack = <<Activation(i)>>
  BY <1>2, <1>3, ZenonT(60) DEF IdleDelete, DeleteLocal, Status
<1>5. dw' = [dw EXCEPT ![d] = m]
  BY <1>1, <1>2
<1> QED BY <1>3, <1>4, <1>5 DEF OnlyCascade, Cascades

LEMMA IdleMoves ==
  ASSUME Cascades, NEW d \in DeleteWorker, EndDelete(d)
  PROVE  OnlyCascade(d) /\ dw'[d].stack = << >>
<1>1. IdleDelete \in DeleteLocal /\ IdleDelete.stack = << >>
  BY DEF IdleDelete, DeleteLocal, Status
<1> QED BY <1>1 DEF EndDelete, OnlyCascade, Cascades

\* Every step of a cascade moves its own stack and takes records, keys and
\* objects away only.
LEMMA CascadeSteps ==
  ASSUME TypeOK, NEW d \in DeleteWorker, DeleteNext(d)
  PROVE  /\ OnlyCascade(d)
         /\ table' \subseteq table /\ bare' \subseteq bare /\ objects' \subseteq objects
         /\ \/ legacy' = legacy /\ table' = table
            \/ \E i : legacy' = legacy \ {i} /\ table' = table \ {i}
         /\ UNCHANGED <<index, type, taken, born, cw, mw, bw>>
<1>1. Cascades /\ index \subseteq Item /\ born \subseteq Item
  BY DEF TypeOK, Cascades
<1>2. /\ table' \subseteq table /\ bare' \subseteq bare /\ objects' \subseteq objects
      /\ \/ legacy' = legacy /\ table' = table
         \/ \E i : legacy' = legacy \ {i} /\ table' = table \ {i}
      /\ UNCHANGED <<index, type, taken, born, cw, mw, bw>>
  <2>1. CASE RemoveRecord(d)
    <3>1. \/ legacy' = legacy /\ table' = table
          \/ \E i : legacy' = legacy \ {i} /\ table' = table \ {i}
      BY <2>1 DEF RemoveRecord
    <3> QED BY <2>1, <3>1 DEF RemoveRecord
  <2>2. CASE ~RemoveRecord(d)
    BY <2>2 DEF DeleteNext, DeleteStep, ReceiveDelete, ListChildren, DeleteChild, GetImage,
                DeleteObject, DeleteFails, EndDelete
  <2> QED BY <2>1, <2>2
<1>3. CASE ReceiveDelete(d)
  BY <1>1, <1>2, <1>3, StartMoves
<1>4. CASE ListChildren(d)
  BY <1>1, <1>2, <1>4, ListMoves
<1>5. CASE DeleteChild(d)
  BY <1>1, <1>2, <1>5, ChildMoves
<1>6. CASE GetImage(d) \/ RemoveRecord(d) \/ DeleteObject(d) \/ DeleteFails(d)
  <2> SUFFICES OnlyCascade(d)
    BY <1>2
  <2>1. /\ Running(d)
        /\ \/ dw' = Abort(d)
           \/ \E found \in BOOLEAN : dw' = Return(d, found)
           \/ dw' = WithStack(d, Append(Below(d), [Top(d) EXCEPT !.stage = 1]))
           \/ dw' = WithStack(d, Append(Below(d), [Top(d) EXCEPT !.stage = 2]))
    <3>1. CASE GetImage(d)
      BY <3>1, Zenon DEF GetImage
    <3>2. CASE RemoveRecord(d)
      BY <3>2, Zenon DEF RemoveRecord
    <3>3. CASE DeleteObject(d) \/ DeleteFails(d)
      BY <3>3 DEF DeleteObject, DeleteFails
    <3> QED BY <1>6, <3>1, <3>2, <3>3
  <2>2. CASE dw' = Abort(d)
    BY <1>1, <2>2, AbortMoves
  <2>3. CASE \E found \in BOOLEAN : dw' = Return(d, found)
    BY <1>1, <2>1, <2>3, ReturnMoves
  <2>4. CASE dw' = WithStack(d, Append(Below(d), [Top(d) EXCEPT !.stage = 1]))
    <3>1. 1 \in 0..2
      OBVIOUS
    <3> QED BY <1>1, <2>1, <2>4, <3>1, StageMoves
  <2>5. CASE dw' = WithStack(d, Append(Below(d), [Top(d) EXCEPT !.stage = 2]))
    <3>1. 2 \in 0..2
      OBVIOUS
    <3> QED BY <1>1, <2>1, <2>5, <3>1, StageMoves
  <2> QED BY <2>1, <2>2, <2>3, <2>4, <2>5
<1>7. CASE EndDelete(d)
  BY <1>1, <1>2, <1>7, IdleMoves
<1> QED BY <1>3, <1>4, <1>5, <1>6, <1>7 DEF DeleteNext, DeleteStep

----------------------------------------------------------------------------
(* Every variable holds a value of its kind *)

Known == TypeOK /\ WorkIsKnown

LEMMA KnownInit == Init => Known
<1> SUFFICES ASSUME Init PROVE Known
  OBVIOUS
<1>1. /\ table \subseteq Item /\ index \subseteq table /\ taken = table /\ born = table
      /\ bare = {}
      /\ legacy = table \cap Legacy
      /\ objects = {i \in table : IsImage(i)} \ legacy
  BY DEF Init, Indexed
<1>2. /\ type \in [Item -> Kinds \cup {None}]
      /\ \A i \in Item : type[i] \in {None, Kind[i]}
      /\ \A i \in Item : type[i] = None => i \in born
  <2>1. PICK old \in SUBSET (table \cap Untyped) :
          type = [i \in Item |-> IF i \in old THEN None ELSE Kind[i]]
    BY DEF Init
  <2> QED BY <1>1, <2>1, KindFacts
<1>3. cw \in [CreateWorker -> CreateLocal] /\ \A w \in CreateWorker : cw[w].pc = "idle"
  BY DEF Init, IdleCreate, CreateLocal, CreatePc
<1>4. dw \in [DeleteWorker -> DeleteLocal]
  BY EmptySeq DEF Init, IdleDelete, DeleteLocal, Status
<1>5. mw \in [Migrator -> MigrateLocal] /\ \A m \in Migrator : mw[m].pc = "idle" /\ mw[m].page = {}
  BY DEF Init, IdleMigrate, MigrateLocal, MigratePc
<1>6. bw \in [Backfiller -> BackfillLocal] /\ \A b \in Backfiller : bw[b].page = {}
  BY DEF Init, IdleBackfill, BackfillLocal, BackfillPc
<1>7. TypeOK
  BY <1>1, <1>2, <1>3, <1>4, <1>5, <1>6 DEF TypeOK
<1>8. WorkIsKnown
  BY <1>1, <1>2, <1>3, <1>5, <1>6 DEF WorkIsKnown
<1> QED BY <1>7, <1>8 DEF Known

LEMMA CreateKeepsKnown ==
  ASSUME Known, NEW w \in CreateWorker, CreateNext(w)
  PROVE  Known'
<1> USE DEF Known
<1>l. PICK l \in CreateLocal : l = cw[w]
  BY DEF TypeOK
<1>1. /\ l.pc # "idle" => l.item \in taken \ Legacy /\ type[l.item] # None
      /\ l.pc = "put" => IsImage(l.item)
      /\ taken \subseteq Item /\ born \subseteq taken
  BY <1>l DEF WorkIsKnown, TypeOK
<1>2. UNCHANGED <<index, legacy, type, dw, mw, bw>>
  BY DEF CreateNext, ReceiveCreate, CheckParent, PutObject, CreateRecord, CreateFails
<1>3. \E m \in CreateLocal :
        /\ cw' = [cw EXCEPT ![w] = m]
        /\ m.pc # "idle" => m.item \in taken' \ Legacy /\ type[m.item] # None
        /\ m.pc = "put" => IsImage(m.item)
  <2>i. /\ IdleCreate \in CreateLocal /\ IdleCreate.pc = "idle"
    BY DEF IdleCreate, CreateLocal, CreatePc
  <2>a. ASSUME cw' = AnswerCreate(w) PROVE <1>3!:
    BY <2>a, <2>i DEF AnswerCreate
  <2>1. CASE ReceiveCreate(w)
    <3>1. PICK i \in Item \ (taken \cup Legacy \cup Untyped), p \in {"create", "check"} :
            /\ taken' = taken \cup {i}
            /\ cw' = [cw EXCEPT ![w] = [IdleCreate EXCEPT !.pc = p, !.item = i]]
      BY <2>1 DEF ReceiveCreate
    <3>2. PICK m : m = [IdleCreate EXCEPT !.pc = p, !.item = i]
      OBVIOUS
    <3>3. m \in CreateLocal /\ m.pc = p /\ m.item = i
      BY <3>2 DEF IdleCreate, CreateLocal, CreatePc
    <3>4. type[i] # None
      BY <1>1 DEF WorkIsKnown
    <3>5. cw' = [cw EXCEPT ![w] = m]
      BY <3>1, <3>2
    <3>6. m.item \in taken' \ Legacy /\ type[m.item] # None /\ m.pc # "put"
      BY <3>1, <3>3, <3>4
    <3> QED BY <3>3, <3>5, <3>6
  <2>2. ASSUME NEW p \in {"create", "put"}, l.pc # "idle", p = "put" => IsImage(l.item),
               cw' = [cw EXCEPT ![w].pc = p], taken' = taken
        PROVE  <1>3!:
    <3>1. PICK m : m = [l EXCEPT !.pc = p]
      OBVIOUS
    <3>2. m \in CreateLocal /\ m.pc = p /\ m.item = l.item
      BY <3>1 DEF CreateLocal, CreatePc
    <3>3. cw' = [cw EXCEPT ![w] = m]
      BY <1>l, <2>2, <3>1
    <3> QED BY <1>1, <2>2, <3>2, <3>3
  <2>3. CASE CheckParent(w)
    <3>1. \/ cw' = AnswerCreate(w)
          \/ cw' = [cw EXCEPT ![w].pc = "put"] /\ IsImage(l.item)
          \/ cw' = [cw EXCEPT ![w].pc = "create"]
      BY <1>l, <2>3 DEF CheckParent
    <3>2. l.pc # "idle" /\ taken' = taken
      BY <1>l, <2>3 DEF CheckParent
    <3> QED BY <2>a, <2>2, <3>1, <3>2
  <2>4. CASE PutObject(w)
    <3>1. l.pc # "idle" /\ taken' = taken
      BY <1>l, <2>4 DEF PutObject
    <3> QED BY <2>a, <2>2, <2>4, <3>1 DEF PutObject
  <2>5. CASE CreateRecord(w)
    <3>1. CASE cw' = cw
      <4>1. cw' = [cw EXCEPT ![w] = l] /\ taken' = taken
        BY <1>l, <2>5, <3>1 DEF CreateRecord, TypeOK
      <4> QED BY <1>1, <4>1
    <3> QED BY <2>5, <3>1, <2>a DEF CreateRecord
  <2>6. CASE CreateFails(w)
    BY <2>6, <2>a DEF CreateFails
  <2> QED BY <2>1, <2>3, <2>4, <2>5, <2>6 DEF CreateNext
<1>4. /\ taken \subseteq taken' /\ taken' \subseteq Item
      /\ born \subseteq born' /\ born' \subseteq taken' /\ table' \subseteq born' /\ table \subseteq table'
      /\ objects' \subseteq {i \in taken' : IsImage(i)}
      /\ bare' \subseteq (born' \cap Untyped) \ table'
  BY <1>l, <1>1 DEF CreateNext, ReceiveCreate, CheckParent, PutObject, CreateRecord,
                    CreateFails, TypeOK
<1>5. cw' \in [CreateWorker -> CreateLocal]
  BY <1>3 DEF TypeOK
<1>6. TypeOK'
  BY <1>2, <1>4, <1>5 DEF TypeOK
<1>7. \A v \in CreateWorker :
         /\ cw'[v].pc # "idle" => cw'[v].item \in taken' \ Legacy /\ type[cw'[v].item] # None
         /\ cw'[v].pc = "put" => IsImage(cw'[v].item)
  <2> SUFFICES ASSUME NEW v \in CreateWorker
               PROVE  /\ cw'[v].pc # "idle" =>
                            cw'[v].item \in taken' \ Legacy /\ type[cw'[v].item] # None
                      /\ cw'[v].pc = "put" => IsImage(cw'[v].item)
    OBVIOUS
  <2>1. CASE v # w
    <3>1. cw'[v] = cw[v]
      BY <1>3, <2>1 DEF TypeOK
    <3> QED BY <1>4, <3>1 DEF WorkIsKnown
  <2>2. CASE v = w
    BY <1>3, <2>2 DEF TypeOK
  <2> QED BY <2>1, <2>2
<1>8. WorkIsKnown'
  BY <1>2, <1>4, <1>7 DEF WorkIsKnown, IsImage, InferredType
<1> QED BY <1>6, <1>8

LEMMA DeleteKeepsKnown ==
  ASSUME Known, NEW d \in DeleteWorker, DeleteNext(d)
  PROVE  Known'
<1> USE DEF Known
<1>1. /\ Cascades' /\ table' \subseteq table /\ bare' \subseteq bare /\ objects' \subseteq objects
      /\ \/ legacy' = legacy /\ table' = table
         \/ \E i : legacy' = legacy \ {i} /\ table' = table \ {i}
      /\ UNCHANGED <<index, type, taken, born, cw, mw, bw>>
  BY CascadeSteps DEF OnlyCascade
<1>2. legacy' \subseteq table' \cap Legacy
  BY <1>1 DEF TypeOK
<1>3. TypeOK'
  BY <1>1, <1>2 DEF TypeOK, Cascades
<1>4. WorkIsKnown'
  BY <1>1 DEF WorkIsKnown, IsImage, InferredType
<1> QED BY <1>3, <1>4

\* What one step does to the local state of a migration run.
ScanBegins(l, g) ==
    /\ g.pc = "scan" /\ g.page = {} /\ g.left = Unmigrated /\ ~g.errors
    /\ g.verified <=> \E b \in Backfiller : bw[b].pc = "complete"
    /\ UNCHANGED <<legacy, objects>>

PageComes(l, g) ==
    /\ l.pc = "scan" /\ g.pc = "scan" /\ l.page = {} /\ g.page \subseteq Unmigrated
    /\ g.left = l.left \ g.page /\ (l.errors => g.errors) /\ g.verified = l.verified
    /\ UNCHANGED <<legacy, objects>>

EntryBegins(l, g) ==
    /\ l.pc = "scan" /\ g.pc = "put" /\ g.item \in l.page /\ g.page = l.page \ {g.item}
    /\ g.left = l.left /\ g.errors = l.errors /\ g.verified = l.verified
    /\ UNCHANGED <<legacy, objects>>

ObjectIsCopied(l, g) ==
    /\ l.pc = "put" /\ g.pc = "attach" /\ g.item = l.item /\ g.page = l.page
    /\ g.left = l.left /\ g.errors = l.errors /\ g.verified = l.verified
    /\ objects' = objects \cup {l.item} /\ UNCHANGED legacy

EntryEnds(l, g) ==
    /\ l.pc \in {"put", "attach"} /\ g.pc = "scan" /\ g.page = l.page
    /\ g.left = l.left /\ g.verified = l.verified
    /\ l.errors => g.errors
    /\ g.errors \/ l.item \notin legacy'
    /\ objects' \in {objects, objects \cup {l.item}}
    /\ \/ legacy' = legacy
       \/ l.pc = "attach" /\ objects' = objects /\ legacy' = legacy \ {l.item}

RunEnds(l, g) ==
    /\ g.page = {} /\ g.pc \in {"idle", "clean"}
    /\ g.pc = "idle" => ~g.verified
    /\ g.pc = "clean" => /\ l.pc = "scan" /\ l.page = {} /\ l.left \cap Unmigrated = {}
                         /\ ~l.errors /\ g.verified = l.verified
    /\ UNCHANGED <<legacy, objects>>

MigrationMoves(l, g) ==
    \/ ScanBegins(l, g) \/ PageComes(l, g) \/ EntryBegins(l, g)
    \/ ObjectIsCopied(l, g) \/ EntryEnds(l, g) \/ RunEnds(l, g)

LEMMA MigrateSteps ==
  ASSUME TypeOK, NEW m \in Migrator, MigrateNext(m)
  PROVE  /\ UNCHANGED <<table, index, type, bare, taken, born, cw, dw, bw>>
         /\ \E g \in MigrateLocal :
              mw' = [mw EXCEPT ![m] = g] /\ MigrationMoves(mw[m], g)
<1>l. PICK l \in MigrateLocal : l = mw[m]
  BY DEF TypeOK
<1>u. UNCHANGED <<table, index, type, bare, taken, born, cw, dw, bw>>
  BY DEF MigrateNext, StartMigration, ScanPage, MigrateRecord, CopyObject, AttachKey,
         MigrateFails, EndMigration, StopMigration
<1>t. legacy \subseteq table /\ table \subseteq Item /\ mw \in [Migrator -> MigrateLocal]
  BY DEF TypeOK
<1> SUFFICES \E g \in MigrateLocal : mw' = [mw EXCEPT ![m] = g] /\ MigrationMoves(l, g)
  BY <1>l, <1>u
<1>1. CASE StartMigration(m)
  <2>1. PICK v \in BOOLEAN : v = \E b \in Backfiller : bw[b].pc = "complete"
    OBVIOUS
  <2>2. PICK g : g = [IdleMigrate EXCEPT !.pc = "scan", !.left = Unmigrated, !.verified = v]
    OBVIOUS
  <2>3. Unmigrated \subseteq Item
    BY <1>t DEF Unmigrated
  <2>4. /\ g \in MigrateLocal /\ g.pc = "scan" /\ g.page = {} /\ g.left = Unmigrated
        /\ g.errors = FALSE /\ g.verified = v
    BY <2>2, <2>3 DEF IdleMigrate, MigrateLocal, MigratePc
  <2>5. mw' = [mw EXCEPT ![m] = g] /\ UNCHANGED <<legacy, objects>>
    BY <1>1, <2>1, <2>2, Zenon DEF StartMigration
  <2>6. ScanBegins(l, g)
    BY <2>1, <2>4, <2>5, Zenon DEF ScanBegins
  <2> QED BY <2>4, <2>5, <2>6 DEF MigrationMoves
<1>2. CASE ScanPage(m)
  <2>1. PICK page \in SUBSET Unmigrated, ids \in SUBSET {i \in bare : IsImage(i)} :
          mw' = [mw EXCEPT ![m] = [mw[m] EXCEPT !.page = page, !.left = mw[m].left \ page,
                                                !.errors = mw[m].errors \/ ids # {}]]
    BY <1>2 DEF ScanPage
  <2>e. PICK e \in BOOLEAN : e = (mw[m].errors \/ ids # {})
    OBVIOUS
  <2>2. PICK g : g = [mw[m] EXCEPT !.page = page, !.left = mw[m].left \ page, !.errors = e]
    OBVIOUS
  <2>3. /\ g \in MigrateLocal /\ g.pc = l.pc /\ g.page = page /\ g.left = l.left \ page
        /\ g.errors = e /\ g.verified = l.verified
    BY <1>l, <1>t, <2>2 DEF MigrateLocal, Unmigrated
  <2>4. l.pc = "scan" /\ l.page = {} /\ UNCHANGED <<legacy, objects>>
    BY <1>l, <1>2 DEF ScanPage
  <2>5. mw' = [mw EXCEPT ![m] = g]
    BY <2>1, <2>e, <2>2, Zenon
  <2>6. l.errors => g.errors
    BY <1>l, <2>e, <2>3, Zenon
  <2> QED BY <2>3, <2>4, <2>5, <2>6 DEF MigrationMoves, PageComes
<1>3. CASE MigrateRecord(m)
  <2>1. PICK i \in l.page :
          mw' = [mw EXCEPT ![m] = [mw[m] EXCEPT !.pc = "put", !.item = i, !.page = @ \ {i}]]
    BY <1>l, <1>3 DEF MigrateRecord
  <2>2. PICK g : g = [mw[m] EXCEPT !.pc = "put", !.item = i, !.page = @ \ {i}]
    OBVIOUS
  <2>3. /\ g \in MigrateLocal /\ g.pc = "put" /\ g.item = i /\ g.page = l.page \ {i}
        /\ g.left = l.left /\ g.errors = l.errors /\ g.verified = l.verified
    BY <1>l, <2>2 DEF MigrateLocal, MigratePc
  <2>4. l.pc = "scan" /\ UNCHANGED <<legacy, objects>>
    BY <1>l, <1>3 DEF MigrateRecord
  <2>5. mw' = [mw EXCEPT ![m] = g]
    BY <2>1, <2>2
  <2> QED BY <2>3, <2>4, <2>5 DEF MigrationMoves, EntryBegins
<1>e. ASSUME NEW error \in BOOLEAN, mw' = Migrated(m, error), l.pc \in {"put", "attach"},
             error \/ l.item \notin legacy',
             objects' \in {objects, objects \cup {l.item}},
             \/ legacy' = legacy
             \/ l.pc = "attach" /\ objects' = objects /\ legacy' = legacy \ {l.item}
      PROVE  \E g \in MigrateLocal : mw' = [mw EXCEPT ![m] = g] /\ MigrationMoves(l, g)
  <2>1. PICK e \in BOOLEAN : e = (mw[m].errors \/ error)
    OBVIOUS
  <2>2. PICK g : g = [mw[m] EXCEPT !.pc = "scan", !.item = None, !.errors = e]
    OBVIOUS
  <2>3. /\ g \in MigrateLocal /\ g.pc = "scan" /\ g.page = l.page
        /\ g.left = l.left /\ g.errors = e /\ g.verified = l.verified
    BY <1>l, <2>2 DEF MigrateLocal, MigratePc
  <2>5. mw' = [mw EXCEPT ![m] = g]
    BY <1>e, <2>1, <2>2, Zenon DEF Migrated
  <2>6. (l.errors => g.errors) /\ (g.errors \/ l.item \notin legacy')
    BY <1>l, <1>e, <2>1, <2>3, Zenon
  <2>7. EntryEnds(l, g)
    BY <1>e, <2>3, <2>6, Zenon DEF EntryEnds
  <2> QED BY <2>3, <2>5, <2>7 DEF MigrationMoves
<1>4. CASE CopyObject(m)
  <2>1. l.pc = "put" /\ objects' = objects \cup {l.item} /\ UNCHANGED legacy
    BY <1>l, <1>4 DEF CopyObject
  <2>2. CASE mw' = [mw EXCEPT ![m].pc = "attach"]
    <3>1. PICK g : g = [l EXCEPT !.pc = "attach"]
      OBVIOUS
    <3>2. /\ g \in MigrateLocal /\ g.pc = "attach" /\ g.item = l.item /\ g.page = l.page
          /\ g.left = l.left /\ g.errors = l.errors /\ g.verified = l.verified
      BY <3>1 DEF MigrateLocal, MigratePc
    <3>3. mw' = [mw EXCEPT ![m] = g]
      BY <1>l, <1>t, <2>2, <3>1
    <3> QED BY <2>1, <3>2, <3>3 DEF MigrationMoves, ObjectIsCopied
  <2>3. CASE mw' = Migrated(m, TRUE)
    BY <1>e, <2>1, <2>3
  <2> QED BY <1>4, <2>2, <2>3 DEF CopyObject
<1>5. CASE AttachKey(m)
  <2>1. l.pc = "attach" /\ objects' = objects
    BY <1>l, <1>5 DEF AttachKey
  <2>2. \E error \in BOOLEAN :
          /\ mw' = Migrated(m, error)
          /\ legacy' = legacy \ {l.item} \/ (legacy' = legacy /\ error)
    BY <1>l, <1>5, Zenon DEF AttachKey
  <2> QED BY <1>e, <2>1, <2>2
<1>6. CASE MigrateFails(m)
  <2>1. l.pc \in {"put", "attach"} /\ UNCHANGED <<legacy, objects>> /\ mw' = Migrated(m, TRUE)
    BY <1>l, <1>6 DEF MigrateFails
  <2> QED BY <1>e, <2>1
<1>7. CASE EndMigration(m)
  <2>1. PICK g : g = [IdleMigrate EXCEPT !.pc = "clean", !.verified = l.verified]
    OBVIOUS
  <2>2. g \in MigrateLocal /\ g.pc = "clean" /\ g.page = {} /\ g.verified = l.verified
    BY <2>1 DEF IdleMigrate, MigrateLocal, MigratePc
  <2>3. /\ l.pc = "scan" /\ l.page = {} /\ l.left \cap Unmigrated = {} /\ ~l.errors
        /\ UNCHANGED <<legacy, objects>>
    BY <1>l, <1>7 DEF EndMigration
  <2>4. mw' = [mw EXCEPT ![m] = g]
    BY <1>l, <1>7, <2>1 DEF EndMigration
  <2>5. RunEnds(l, g)
    BY <2>2, <2>3 DEF RunEnds
  <2> QED BY <2>2, <2>4, <2>5 DEF MigrationMoves
<1>8. CASE StopMigration(m)
  <2>1. /\ IdleMigrate \in MigrateLocal /\ IdleMigrate.page = {} /\ IdleMigrate.pc = "idle"
        /\ ~IdleMigrate.verified
    BY DEF IdleMigrate, MigrateLocal, MigratePc
  <2>2. RunEnds(l, IdleMigrate)
    BY <1>8, <2>1 DEF RunEnds, StopMigration
  <2> QED BY <1>8, <2>1, <2>2 DEF MigrationMoves, StopMigration
<1> QED BY <1>1, <1>2, <1>3, <1>4, <1>5, <1>6, <1>7, <1>8 DEF MigrateNext

LEMMA MigrateKeepsKnown ==
  ASSUME Known, NEW m \in Migrator, MigrateNext(m)
  PROVE  Known'
<1> USE DEF Known
<1>1. UNCHANGED <<table, index, type, bare, taken, born, cw, dw, bw>>
  BY MigrateSteps
<1>2. PICK g \in MigrateLocal : mw' = [mw EXCEPT ![m] = g] /\ MigrationMoves(mw[m], g)
  BY MigrateSteps
<1>l. PICK l \in MigrateLocal : l = mw[m]
  BY DEF TypeOK
<1>3. /\ l.page \subseteq {i \in born : IsImage(i)}
      /\ l.pc \in {"put", "attach"} => l.item \in born /\ IsImage(l.item)
      /\ Unmigrated \subseteq {i \in born : IsImage(i)}
      /\ mw \in [Migrator -> MigrateLocal]
  BY <1>l, TreeAssumption DEF WorkIsKnown, TypeOK, Unmigrated
<1>4. /\ g.page \subseteq {i \in born : IsImage(i)}
      /\ g.pc \in {"put", "attach"} => g.item \in born /\ IsImage(g.item)
      /\ legacy' \subseteq legacy
      /\ objects' \subseteq objects \cup {i \in born : IsImage(i)}
  BY <1>l, <1>2, <1>3 DEF MigrationMoves, ScanBegins, PageComes, EntryBegins, ObjectIsCopied,
                          EntryEnds, RunEnds
<1>5. TypeOK'
  BY <1>1, <1>2, <1>4 DEF TypeOK
<1>6. \A n \in Migrator :
        /\ mw'[n].page \subseteq {i \in born : IsImage(i)}
        /\ mw'[n].pc \in {"put", "attach"} => mw'[n].item \in born /\ IsImage(mw'[n].item)
  BY <1>2, <1>3, <1>4 DEF WorkIsKnown
<1>7. WorkIsKnown'
  BY <1>1, <1>6 DEF WorkIsKnown, IsImage, InferredType
<1> QED BY <1>5, <1>7

\* The records that a scan for the backfill may return.
Scannable == {i \in born \cap Untyped : InferredType(i) # None}

\* What one step does to the local state of a backfill run.
BackfillMoves(l, g) ==
    \/ /\ g.pc = "scan" /\ g.page = {} /\ g.left = ToBackfill
       /\ UNCHANGED <<bare, type>>
    \/ /\ l.pc = "scan" /\ g.pc = "scan" /\ g.page \subseteq Scannable
       /\ g.left = l.left \ g.page /\ l.page = {}
       /\ UNCHANGED <<bare, type>>
    \/ /\ l.pc = "scan"
       /\ \E i \in l.page :
            /\ bare' = (IF i \in table THEN bare ELSE bare \cup {i})
            /\ type' = [type EXCEPT ![i] = InferredType(i)]
            /\ g.page \subseteq l.page
            /\ g.pc = "scan" => l.page \subseteq g.page \cup {i} /\ g.left = l.left
       /\ g.pc \in {"idle", "scan"}
    \/ /\ g.page = {} /\ g.pc \in {"idle", "complete"}
       /\ g.pc = "complete" => l.pc = "scan" /\ l.page = {} /\ l.left \cap ToBackfill = {}
       /\ UNCHANGED <<bare, type>>

LEMMA BackfillSteps ==
  ASSUME TypeOK, NEW b \in Backfiller, BackfillNext(b)
  PROVE  /\ UNCHANGED <<table, index, legacy, objects, taken, born, cw, dw, mw>>
         /\ \E g \in BackfillLocal :
              bw' = [bw EXCEPT ![b] = g] /\ BackfillMoves(bw[b], g)
<1>l. PICK l \in BackfillLocal : l = bw[b]
  BY DEF TypeOK
<1>u. UNCHANGED <<table, index, legacy, objects, taken, born, cw, dw, mw>>
  BY DEF BackfillNext, StartBackfill, ScanUntyped, SetEntityType, CompleteBackfill, BackfillFails
<1>t. bw \in [Backfiller -> BackfillLocal] /\ ToBackfill \subseteq Item /\ Scannable \subseteq Item
  BY DEF TypeOK, ToBackfill, Scannable
<1> SUFFICES \E g \in BackfillLocal : bw' = [bw EXCEPT ![b] = g] /\ BackfillMoves(l, g)
  BY <1>l, <1>u
<1>i. IdleBackfill \in BackfillLocal /\ IdleBackfill.pc = "idle" /\ IdleBackfill.page = {}
  BY DEF IdleBackfill, BackfillLocal, BackfillPc
<1>1. CASE StartBackfill(b)
  <2>1. PICK g : g = [IdleBackfill EXCEPT !.pc = "scan", !.left = ToBackfill]
    OBVIOUS
  <2>2. g \in BackfillLocal /\ g.pc = "scan" /\ g.page = {} /\ g.left = ToBackfill
    BY <1>t, <2>1 DEF IdleBackfill, BackfillLocal, BackfillPc
  <2>3. bw' = [bw EXCEPT ![b] = g] /\ UNCHANGED <<bare, type>>
    BY <1>1, <2>1 DEF StartBackfill
  <2> QED BY <2>2, <2>3 DEF BackfillMoves
<1>2. CASE ScanUntyped(b)
  <2>1. PICK page \in SUBSET Scannable :
          bw' = [bw EXCEPT ![b] = [bw[b] EXCEPT !.page = page, !.left = bw[b].left \ page]]
    BY <1>2 DEF ScanUntyped, Scannable
  <2>2. PICK g : g = [bw[b] EXCEPT !.page = page, !.left = bw[b].left \ page]
    OBVIOUS
  <2>3. g \in BackfillLocal /\ g.pc = l.pc /\ g.page = page /\ g.left = l.left \ page
    BY <1>l, <1>t, <2>2 DEF BackfillLocal
  <2>4. l.pc = "scan" /\ l.page = {} /\ UNCHANGED <<bare, type>>
    BY <1>l, <1>2 DEF ScanUntyped
  <2>5. bw' = [bw EXCEPT ![b] = g]
    BY <2>1, <2>2
  <2> QED BY <2>3, <2>4, <2>5 DEF BackfillMoves
<1>3. CASE SetEntityType(b)
  <2>1. PICK i \in l.page :
          /\ bare' = (IF i \in table THEN bare ELSE bare \cup {i})
          /\ type' = [type EXCEPT ![i] = InferredType(i)]
          /\ \/ bw' = [bw EXCEPT ![b].page = @ \ {i}]
             \/ bw' = [bw EXCEPT ![b] = IdleBackfill]
             \/ bw' = bw
    BY <1>l, <1>3 DEF SetEntityType
  <2>2. l.pc = "scan"
    BY <1>l, <1>3 DEF SetEntityType
  <2>3. CASE bw' = [bw EXCEPT ![b].page = @ \ {i}]
    <3>1. PICK g : g = [l EXCEPT !.page = @ \ {i}]
      OBVIOUS
    <3>2. g \in BackfillLocal /\ g.pc = l.pc /\ g.page = l.page \ {i} /\ g.left = l.left
      BY <3>1 DEF BackfillLocal
    <3>3. bw' = [bw EXCEPT ![b] = g]
      BY <1>l, <1>t, <2>3, <3>1
    <3> QED BY <2>1, <2>2, <3>2, <3>3 DEF BackfillMoves
  <2>4. CASE bw' = [bw EXCEPT ![b] = IdleBackfill]
    BY <1>i, <2>1, <2>2, <2>4 DEF BackfillMoves
  <2>5. CASE bw' = bw
    <3>1. bw' = [bw EXCEPT ![b] = l]
      BY <1>l, <1>t, <2>5
    <3>2. l.page \subseteq l.page \cup {i} /\ l.page \subseteq l.page
      OBVIOUS
    <3> QED BY <2>1, <2>2, <3>1, <3>2 DEF BackfillMoves
  <2> QED BY <2>1, <2>3, <2>4, <2>5
<1>4. CASE CompleteBackfill(b)
  <2>1. PICK g : g = [IdleBackfill EXCEPT !.pc = "complete"]
    OBVIOUS
  <2>2. g \in BackfillLocal /\ g.pc = "complete" /\ g.page = {}
    BY <2>1 DEF IdleBackfill, BackfillLocal, BackfillPc
  <2>3. /\ l.pc = "scan" /\ l.page = {} /\ l.left \cap ToBackfill = {}
        /\ UNCHANGED <<bare, type>> /\ bw' = [bw EXCEPT ![b] = g]
    BY <1>l, <1>4, <2>1 DEF CompleteBackfill
  <2> QED BY <2>2, <2>3 DEF BackfillMoves
<1>5. CASE BackfillFails(b)
  BY <1>i, <1>5 DEF BackfillFails, BackfillMoves
<1> QED BY <1>1, <1>2, <1>3, <1>4, <1>5 DEF BackfillNext

LEMMA BackfillKeepsKnown ==
  ASSUME Known, NEW b \in Backfiller, BackfillNext(b)
  PROVE  Known'
<1> USE DEF Known
<1>1. UNCHANGED <<table, index, legacy, objects, taken, born, cw, dw, mw>>
  BY BackfillSteps
<1>2. PICK g \in BackfillLocal : bw' = [bw EXCEPT ![b] = g] /\ BackfillMoves(bw[b], g)
  BY BackfillSteps
<1>l. PICK l \in BackfillLocal : l = bw[b]
  BY DEF TypeOK
<1>3. /\ l.page \subseteq Scannable
      /\ born \subseteq Item
      /\ bw \in [Backfiller -> BackfillLocal]
  BY <1>l DEF WorkIsKnown, TypeOK, Scannable
<1>4. g.page \subseteq Scannable
  BY <1>l, <1>2, <1>3 DEF BackfillMoves
<1>5. \/ bare' = bare /\ type' = type
      \/ \E i \in Scannable : /\ bare' = (IF i \in table THEN bare ELSE bare \cup {i})
                              /\ type' = [type EXCEPT ![i] = InferredType(i)]
  BY <1>l, <1>2, <1>3 DEF BackfillMoves
<1>6. /\ bare' \subseteq (born \cap Untyped) \ table
      /\ type' \in [Item -> Kinds \cup {None}]
      /\ \A i \in Item : type'[i] \in {None, Kind[i]}
      /\ \A i \in Item : type[i] # None => type'[i] # None
  <2>1. CASE bare' = bare /\ type' = type
    BY <2>1 DEF TypeOK
  <2>2. CASE \E i \in Scannable : /\ bare' = (IF i \in table THEN bare ELSE bare \cup {i})
                                  /\ type' = [type EXCEPT ![i] = InferredType(i)]
    <3>1. PICK i \in Scannable : /\ bare' = (IF i \in table THEN bare ELSE bare \cup {i})
                                 /\ type' = [type EXCEPT ![i] = InferredType(i)]
      BY <2>2
    <3>2. /\ i \in Item /\ i \in born \cap Untyped
          /\ InferredType(i) = Kind[i] /\ Kind[i] \in Kinds
      BY <1>3, <3>1, KindFacts DEF Scannable
    <3> QED BY <3>1, <3>2 DEF TypeOK
  <2> QED BY <1>5, <2>1, <2>2
<1>7. TypeOK'
  BY <1>1, <1>2, <1>6 DEF TypeOK
<1>8. \A c \in Backfiller : bw'[c].page \subseteq Scannable
  BY <1>2, <1>3, <1>4 DEF WorkIsKnown, Scannable
<1>9. \A w \in CreateWorker : cw[w].pc # "idle" => cw[w].item \in Item
  BY DEF WorkIsKnown, TypeOK
<1>10. /\ \A i \in Item : type'[i] = None => i \in born
       /\ \A w \in CreateWorker :
            /\ cw[w].pc # "idle" => cw[w].item \in taken \ Legacy /\ type'[cw[w].item] # None
            /\ cw[w].pc = "put" => IsImage(cw[w].item)
  BY <1>6, <1>9 DEF WorkIsKnown
<1>11. WorkIsKnown'
  BY <1>1, <1>8, <1>10 DEF WorkIsKnown, Scannable, IsImage, InferredType
<1> QED BY <1>7, <1>11

LEMMA IndexKeepsKnown ==
  ASSUME Known, Propagate
  PROVE  Known'
<1>1. UNCHANGED <<table, legacy, type, bare, objects, taken, born, cw, dw, mw, bw>>
  BY DEF Propagate
<1>2. index' \subseteq born
  BY DEF Propagate, Indexed, Known, TypeOK
<1>3. TypeOK'
  BY <1>1, <1>2 DEF Known, TypeOK
<1>4. WorkIsKnown'
  BY <1>1 DEF Known, WorkIsKnown, IsImage, InferredType
<1> QED BY <1>3, <1>4 DEF Known

LEMMA KnownStep == Known /\ [Next]_vars => Known'
<1> SUFFICES ASSUME Known, [Next]_vars PROVE Known'
  OBVIOUS
<1>1. CASE UNCHANGED vars
  BY <1>1 DEF vars, Known, TypeOK, WorkIsKnown, IsImage, InferredType
<1>2. CASE Next
  BY <1>2, CreateKeepsKnown, DeleteKeepsKnown, MigrateKeepsKnown, BackfillKeepsKnown,
     IndexKeepsKnown DEF Next
<1> QED BY <1>1, <1>2

\* Every variable of the library holds a value of its kind, a record has an id
\* that was generated, and no record carries an entity type but its own: the
\* backfill of cmd/backfill infers no wrong type, from whatever it scans.
THEOREM LibraryTyped == Spec => []TypeOK
<1>1. Known => TypeOK
  BY DEF Known
<1> QED BY <1>1, KnownInit, KnownStep, PTL DEF Spec

----------------------------------------------------------------------------
(* The migration *)

\* No step makes work for a backfill or a migration.
LEMMA OldRecordsShrink ==
  ASSUME Known, [Next]_vars
  PROVE  ToBackfill' \subseteq ToBackfill /\ legacy' \subseteq legacy
<1>1. CASE UNCHANGED vars
  BY <1>1 DEF vars, ToBackfill, InferredType
<1>2. ASSUME NEW w \in CreateWorker, CreateNext(w)
      PROVE  ToBackfill' \subseteq ToBackfill /\ legacy' \subseteq legacy
  <2>1. type' = type /\ legacy' = legacy
    BY <1>2 DEF CreateNext, ReceiveCreate, CheckParent, PutObject, CreateRecord, CreateFails
  <2>2. table' = table \/ (cw[w].pc = "create" /\ table' = table \cup {cw[w].item})
    BY <1>2 DEF CreateNext, ReceiveCreate, CheckParent, PutObject, CreateRecord, CreateFails
  <2>3. cw[w].pc # "idle" => type[cw[w].item] # None
    BY DEF Known, WorkIsKnown
  <2> QED BY <2>1, <2>2, <2>3 DEF ToBackfill, InferredType
<1>3. ASSUME NEW d \in DeleteWorker, DeleteNext(d)
      PROVE  ToBackfill' \subseteq ToBackfill /\ legacy' \subseteq legacy
  <2>1. type' = type /\ table' \subseteq table /\ legacy' \subseteq legacy
    BY <1>3, CascadeSteps DEF Known
  <2> QED BY <2>1 DEF ToBackfill, InferredType
<1>4. ASSUME NEW m \in Migrator, MigrateNext(m)
      PROVE  ToBackfill' \subseteq ToBackfill /\ legacy' \subseteq legacy
  <2>1. /\ type' = type /\ table' = table
        /\ \E g \in MigrateLocal : MigrationMoves(mw[m], g)
    BY <1>4, MigrateSteps DEF Known
  <2>2. legacy' \subseteq legacy
    BY <2>1 DEF MigrationMoves, ScanBegins, PageComes, EntryBegins, ObjectIsCopied, EntryEnds,
                RunEnds
  <2> QED BY <2>1, <2>2 DEF ToBackfill, InferredType
<1>5. ASSUME NEW b \in Backfiller, BackfillNext(b)
      PROVE  ToBackfill' \subseteq ToBackfill /\ legacy' \subseteq legacy
  <2>1. /\ legacy' = legacy /\ table' = table
        /\ \E g \in BackfillLocal : BackfillMoves(bw[b], g)
    BY <1>5, BackfillSteps DEF Known
  <2>2. \/ type' = type
        \/ \E i \in bw[b].page : type' = [type EXCEPT ![i] = InferredType(i)]
    BY <2>1 DEF BackfillMoves
  <2>3. CASE type' = type
    BY <2>1, <2>3 DEF ToBackfill, InferredType
  <2>4. CASE \E i \in bw[b].page : type' = [type EXCEPT ![i] = InferredType(i)]
    <3>1. PICK i \in bw[b].page : type' = [type EXCEPT ![i] = InferredType(i)]
      BY <2>4
    <3>2. i \in Item /\ type \in [Item -> Kinds \cup {None}] /\ table \subseteq Item
      BY DEF Known, WorkIsKnown, TypeOK
    <3>3. ASSUME NEW j \in ToBackfill' PROVE j \in ToBackfill
      <4>1. j \in table' /\ type'[j] = None /\ InferredType(j) # None
        BY DEF ToBackfill, InferredType
      <4>2. j # i
        BY <3>1, <3>2, <4>1
      <4>3. j \in table /\ type[j] = None
        BY <2>1, <3>1, <3>2, <4>1, <4>2
      <4> QED BY <4>1, <4>3 DEF ToBackfill
    <3> QED BY <2>1, <3>3
  <2> QED BY <2>2, <2>3, <2>4
<1>6. CASE Propagate
  BY <1>6 DEF Propagate, ToBackfill, InferredType
<1> QED BY <1>1, <1>2, <1>3, <1>4, <1>5, <1>6 DEF Next

\* Only its own step changes a run.
LEMMA RunsMove ==
  ASSUME Known, [Next]_vars
  PROVE  /\ \A m \in Migrator :
              \/ mw'[m] = mw[m]
              \/ /\ \E g \in MigrateLocal : mw'[m] = g /\ MigrationMoves(mw[m], g)
                 /\ UNCHANGED <<table, index, type, taken, born, cw, dw, bw>>
         /\ \A b \in Backfiller :
              \/ bw'[b] = bw[b]
              \/ /\ \E g \in BackfillLocal : bw'[b] = g /\ BackfillMoves(bw[b], g)
                 /\ UNCHANGED <<table, index, legacy, objects, taken, born, cw, dw, mw>>
<1>t. mw \in [Migrator -> MigrateLocal] /\ bw \in [Backfiller -> BackfillLocal]
  BY DEF Known, TypeOK
<1>1. CASE mw' = mw /\ bw' = bw
  BY <1>1
<1>2. ASSUME NEW m \in Migrator, MigrateNext(m)
      PROVE  /\ UNCHANGED <<table, index, type, bare, taken, born, cw, dw, bw>>
             /\ \E g \in MigrateLocal : mw'[m] = g /\ MigrationMoves(mw[m], g)
             /\ \A n \in Migrator \ {m} : mw'[n] = mw[n]
  BY <1>t, <1>2, MigrateSteps DEF Known
<1>3. ASSUME NEW b \in Backfiller, BackfillNext(b)
      PROVE  /\ UNCHANGED <<table, index, legacy, objects, taken, born, cw, dw, mw>>
             /\ \E g \in BackfillLocal : bw'[b] = g /\ BackfillMoves(bw[b], g)
             /\ \A c \in Backfiller \ {b} : bw'[c] = bw[c]
  BY <1>t, <1>3, BackfillSteps DEF Known
<1>4. CASE \E w \in CreateWorker : CreateNext(w)
  <2>1. mw' = mw /\ bw' = bw
    BY <1>4 DEF CreateNext, ReceiveCreate, CheckParent, PutObject, CreateRecord, CreateFails
  <2> QED BY <1>1, <2>1
<1>5. CASE \E d \in DeleteWorker : DeleteNext(d)
  <2>1. mw' = mw /\ bw' = bw
    BY <1>5, CascadeSteps DEF Known
  <2> QED BY <1>1, <2>1
<1>6. CASE Propagate \/ UNCHANGED vars
  BY <1>1, <1>6 DEF Propagate, vars
<1>7. CASE \E m \in Migrator : MigrateNext(m)
  BY <1>2, <1>7
<1>8. CASE \E b \in Backfiller : BackfillNext(b)
  BY <1>3, <1>8
<1> QED BY <1>4, <1>5, <1>6, <1>7, <1>8 DEF Next

LEMMA BackfillStaysOnTrack ==
  ASSUME Known, [Next]_vars, NEW b \in Backfiller, BackfillIsOnTrack(b)
  PROVE  BackfillIsOnTrack(b)'
<1>1. ToBackfill' \subseteq ToBackfill
  BY OldRecordsShrink
<1>2. CASE bw'[b] = bw[b]
  BY <1>1, <1>2 DEF BackfillIsOnTrack
<1>3. CASE \E g \in BackfillLocal : bw'[b] = g /\ BackfillMoves(bw[b], g)
  <2>1. PICK g \in BackfillLocal : bw'[b] = g /\ BackfillMoves(bw[b], g)
    BY <1>3
  <2>2. PICK l : l = bw[b]
    OBVIOUS
  <2>3. /\ l.pc = "scan" => ToBackfill \subseteq l.left \cup l.page
        /\ l.pc = "complete" => ToBackfill = {}
    BY <2>2 DEF BackfillIsOnTrack
  <2>4. /\ g.pc = "scan" => ToBackfill' \subseteq g.left \cup g.page
        /\ g.pc = "complete" => ToBackfill' = {}
    <3>1. CASE /\ g.pc = "scan" /\ g.page = {} /\ g.left = ToBackfill
               /\ UNCHANGED <<bare, type>>
      BY <1>1, <3>1
    <3>2. CASE /\ l.pc = "scan" /\ g.pc = "scan" /\ g.page \subseteq Scannable
               /\ g.left = l.left \ g.page /\ l.page = {}
               /\ UNCHANGED <<bare, type>>
      BY <1>1, <2>3, <3>2
    <3>3. CASE /\ l.pc = "scan"
               /\ \E i \in l.page :
                    /\ bare' = (IF i \in table THEN bare ELSE bare \cup {i})
                    /\ type' = [type EXCEPT ![i] = InferredType(i)]
                    /\ g.page \subseteq l.page
                    /\ g.pc = "scan" => l.page \subseteq g.page \cup {i} /\ g.left = l.left
               /\ g.pc \in {"idle", "scan"}
      <4>1. PICK i \in l.page :
              /\ type' = [type EXCEPT ![i] = InferredType(i)]
              /\ g.pc = "scan" => l.page \subseteq g.page \cup {i} /\ g.left = l.left
        BY <3>3
      <4>2. i \notin ToBackfill'
        <5>1. i \in Item /\ type \in [Item -> Kinds \cup {None}]
          BY <2>2 DEF Known, WorkIsKnown, TypeOK
        <5> QED BY <4>1, <5>1 DEF ToBackfill, InferredType
      <4> QED BY <1>1, <2>3, <3>3, <4>1, <4>2
    <3>4. CASE /\ g.page = {} /\ g.pc \in {"idle", "complete"}
               /\ g.pc = "complete" => l.pc = "scan" /\ l.page = {} /\ l.left \cap ToBackfill = {}
               /\ UNCHANGED <<bare, type>>
      BY <1>1, <2>3, <3>4
    <3> QED BY <2>1, <2>2, <3>1, <3>2, <3>3, <3>4 DEF BackfillMoves
  <2> QED BY <2>1, <2>4 DEF BackfillIsOnTrack
<1> QED BY <1>2, <1>3, RunsMove

LEMMA MigrationStaysOnTrack ==
  ASSUME Known, [Next]_vars, MigrationInductive, NEW m \in Migrator
  PROVE  MigrationIsOnTrack(m)'
<1>1. ToBackfill' \subseteq ToBackfill /\ legacy' \subseteq legacy
  BY OldRecordsShrink
<1>2. PICK l : l = mw[m]
  OBVIOUS
<1>3. l.verified =>
        /\ ToBackfill = {}
        /\ l.pc \in {"scan", "put", "attach"} /\ ~l.errors =>
             legacy \subseteq l.left \cup l.page
                              \cup (IF l.pc \in {"put", "attach"} THEN {l.item} ELSE {})
        /\ l.pc = "clean" => legacy = {}
  BY <1>2 DEF MigrationInductive, MigrationIsOnTrack
<1>4. CASE mw'[m] = mw[m]
  BY <1>1, <1>2, <1>3, <1>4 DEF MigrationIsOnTrack
<1>5. CASE \E g \in MigrateLocal : mw'[m] = g /\ MigrationMoves(mw[m], g)
  <2>1. PICK g \in MigrateLocal : mw'[m] = g /\ MigrationMoves(l, g)
    BY <1>2, <1>5
  <2>2. ToBackfill = {} => legacy \subseteq Unmigrated
    <3>1. ASSUME ToBackfill = {}, NEW i \in legacy PROVE i \in Unmigrated
      <4>1. i \in table /\ i \in Item /\ IsImage(i) /\ type[i] \in {None, Kind[i]}
        BY TreeAssumption DEF Known, TypeOK
      <4>2. type[i] # None
        BY <3>1, <4>1, KindFacts DEF ToBackfill
      <4> QED BY <4>1, <4>2 DEF Unmigrated, IsImage
    <3> QED BY <3>1
  <2>3. g.verified =>
          /\ ToBackfill = {}
          /\ g.pc \in {"scan", "put", "attach"} /\ ~g.errors =>
               legacy' \subseteq g.left \cup g.page
                                \cup (IF g.pc \in {"put", "attach"} THEN {g.item} ELSE {})
          /\ g.pc = "clean" => legacy' = {}
    <3> SUFFICES ASSUME g.verified
                 PROVE  /\ ToBackfill = {}
                        /\ g.pc \in {"scan", "put", "attach"} /\ ~g.errors =>
                             legacy' \subseteq g.left \cup g.page
                                \cup (IF g.pc \in {"put", "attach"} THEN {g.item} ELSE {})
                        /\ g.pc = "clean" => legacy' = {}
      OBVIOUS
    <3>1. CASE ScanBegins(l, g)
      <4>1. ToBackfill = {}
        BY <3>1 DEF ScanBegins, MigrationInductive, BackfillIsOnTrack
      <4> QED BY <1>1, <2>2, <3>1, <4>1 DEF ScanBegins
    <3>2. CASE PageComes(l, g)
      BY <1>1, <1>3, <3>2 DEF PageComes
    <3>3. CASE EntryBegins(l, g)
      BY <1>1, <1>3, <3>3 DEF EntryBegins
    <3>4. CASE ObjectIsCopied(l, g)
      BY <1>1, <1>3, <3>4 DEF ObjectIsCopied
    <3>5. CASE EntryEnds(l, g)
      BY <1>1, <1>3, <3>5 DEF EntryEnds
    <3>6. CASE RunEnds(l, g)
      BY <1>1, <1>3, <2>2, <3>6 DEF RunEnds
    <3> QED BY <2>1, <3>1, <3>2, <3>3, <3>4, <3>5, <3>6 DEF MigrationMoves
  <2> QED BY <1>1, <2>1, <2>3 DEF MigrationIsOnTrack
<1> QED BY <1>4, <1>5, RunsMove

LEMMA MigrationInit == Init => MigrationInductive
  BY DEF Init, MigrationInductive, BackfillIsOnTrack, MigrationIsOnTrack, IdleBackfill, IdleMigrate

\* A migration that ends with exit status 0 after a backfill that completed has
\* left no image without a managed key, with any number of runs, cascades and
\* uploads beside it.
THEOREM CleanMeansMigrated == Spec => []CleanMigrationIsComplete
<1>1. Known /\ MigrationInductive /\ [Next]_vars => MigrationInductive'
  BY BackfillStaysOnTrack, MigrationStaysOnTrack DEF MigrationInductive
<1>2. MigrationInductive => CleanMigrationIsComplete
  BY DEF MigrationInductive, MigrationIsOnTrack, CleanMigrationIsComplete
<1> QED BY <1>1, <1>2, KnownInit, KnownStep, MigrationInit, PTL DEF Spec

----------------------------------------------------------------------------
(* What the other properties rest on *)

\* What the code's surroundings must guarantee: the SDK does not send the
\* PutItem of a create twice (resent_create shows what happens otherwise).
Undisturbed == Resend => CreateWorker = {}

FramesAreTrue(d) ==
    \A n \in 1..Len(dw[d].stack) : FrameIsTrue(dw[d].stack[n], Current(d, n))

Sound == Known /\ LibraryInductive

LEMMA LibraryInit == Init => LibraryInductive
<1> SUFFICES ASSUME Init PROVE LibraryInductive
  OBVIOUS
<1>1. /\ index = Indexed
      /\ \A i \in table : Parent[i] # None => Parent[i] \in table
      /\ objects = {i \in table : IsImage(i)} \ legacy
  BY DEF Init
<1>2. \A w \in CreateWorker : cw[w].pc = "idle"
  BY DEF Init, IdleCreate
<1>3. \A d \in DeleteWorker : Len(dw[d].stack) = 0
  BY DEF Init, IdleDelete
<1>4. \A m \in Migrator : mw[m].pc = "idle"
  BY DEF Init, IdleMigrate
<1>6. Untyped = {} => \A i \in Item : type[i] = Kind[i]
  BY DEF Init
<1>7. \A d \in DeleteWorker : \A n \in 1..Len(dw[d].stack) :
        FrameIsTrue(dw[d].stack[n], Current(d, n))
  BY <1>3
<1> QED BY <1>1, <1>2, <1>4, <1>6, <1>7
        DEF LibraryInductive, RecordHasObject, CreateIsNew, NoOrphans

\* Records that were never stored may come and stored ones may go: what is
\* known of an activation stays true.
LEMMA FrameStaysTrue ==
  ASSUME Known, NEW f \in Frame, NEW current, FrameIsTrue(f, current),
         born \subseteq born', table' \cap born \subseteq table,
         CreateWorker = {} => table' \subseteq table
  PROVE  FrameIsTrue(f, current)'
<1>1. table \subseteq born
  BY DEF Known, TypeOK
<1> QED BY <1>1 DEF FrameIsTrue, IsImage, Stages

LEMMA CascadesStayTrue ==
  ASSUME Known, NEW d \in DeleteWorker, FramesAreTrue(d), dw'[d] = dw[d],
         born \subseteq born', table' \cap born \subseteq table,
         CreateWorker = {} => table' \subseteq table
  PROVE  FramesAreTrue(d)'
<1>1. dw[d].stack \in Seq(Frame)
  BY DEF Known, TypeOK, DeleteLocal
<1>2. \A n \in 1..Len(dw[d].stack) : dw[d].stack[n] \in Frame
  BY <1>1, ElementOfSeq
<1> SUFFICES ASSUME NEW n \in 1..Len(dw'[d].stack)
             PROVE  FrameIsTrue(dw[d].stack[n], Current(d, n))'
  BY DEF FramesAreTrue
<1>3. PICK f \in Frame : f = dw[d].stack[n]
  BY <1>2
<1>4. PICK current : current = Current(d, n)
  OBVIOUS
<1>5. FrameIsTrue(f, current)
  BY <1>3, <1>4 DEF FramesAreTrue
<1>6. FrameIsTrue(f, current)'
  BY <1>5, FrameStaysTrue
<1>7. dw'[d].stack[n] = f /\ Current(d, n)' = current
  BY <1>3, <1>4 DEF Current
<1> QED BY <1>6, <1>7

LEMMA CreateKeepsSound ==
  ASSUME Undisturbed, Sound, NEW w \in CreateWorker, CreateNext(w)
  PROVE  LibraryInductive'
<1> USE DEF Sound
<1>u. UNCHANGED <<index, legacy, type, dw, mw, bw>> /\ objects \subseteq objects'
  BY DEF CreateNext, ReceiveCreate, CheckParent, PutObject, CreateRecord, CreateFails
<1>t. /\ cw \in [CreateWorker -> CreateLocal] /\ born \subseteq taken /\ taken \subseteq Item
      /\ \A v \in CreateWorker : cw[v].pc # "idle" => cw[v].item \in taken
  BY DEF Known, TypeOK, WorkIsKnown
<1>n. \A v \in CreateWorker : CreateIsNew(v)
  BY DEF LibraryInductive
<1>1. /\ table' \cap born \subseteq table /\ born \subseteq born'
      /\ \A i \in table' \ table : IsImage(i) => i \in objects
      /\ table \subseteq table'
  BY <1>n, ZenonT(60) DEF CreateNext, ReceiveCreate, CheckParent, PutObject, CreateRecord, CreateFails,
              CreateIsNew
<1>2. RecordHasObject'
  BY <1>u, <1>1 DEF LibraryInductive, RecordHasObject, IsImage
<1>3. ASSUME NEW v \in CreateWorker PROVE CreateIsNew(v)'
  <2>i. IdleCreate.pc = "idle"
    BY DEF IdleCreate
  <2>a. CASE cw' = AnswerCreate(w) /\ born' = born
    <3>1. cw'[w].pc = "idle" /\ \A x \in CreateWorker \ {w} : cw'[x] = cw[x]
      BY <1>t, <2>a, <2>i DEF AnswerCreate
    <3>2. CASE v = w
      BY <3>1, <3>2 DEF CreateIsNew
    <3>3. CASE v # w
      <4>1. cw'[v] = cw[v] /\ \A x \in CreateWorker : cw'[x].pc # "idle" => cw'[x] = cw[x]
        BY <3>1, <3>3
      <4> QED BY <1>u, <1>n, <2>a, <4>1 DEF CreateIsNew, IsImage
    <3> QED BY <3>2, <3>3
  <2>1. CASE ReceiveCreate(w)
    <3>1. PICK i \in Item \ (taken \cup Legacy \cup Untyped), p \in {"create", "check"} :
            /\ cw' = [cw EXCEPT ![w] = [IdleCreate EXCEPT !.pc = p, !.item = i]]
            /\ p = "create" => Parent[i] = None
      BY <2>1 DEF ReceiveCreate
    <3>2. PICK m : m = [IdleCreate EXCEPT !.pc = p, !.item = i]
      OBVIOUS
    <3>3. m.pc = p /\ m.item = i
      BY <3>2 DEF IdleCreate
    <3>4. cw'[w] = m /\ \A x \in CreateWorker \ {w} : cw'[x] = cw[x]
      BY <1>t, <3>1, <3>2
    <3>5. born' = born
      BY <2>1 DEF ReceiveCreate
    <3>6. p = "create" => ~IsImage(i)
      BY <3>1, TreeAssumption
    <3>7. CASE v = w
      <4>1. \A x \in CreateWorker \ {w} : cw'[x].pc # "idle" => cw'[x].item # i
        BY <1>t, <3>1, <3>4
      <4> QED BY <1>t, <3>1, <3>3, <3>4, <3>5, <3>6, <3>7, <4>1 DEF CreateIsNew, IsImage
    <3>8. CASE v # w
      <4>1. cw'[v].pc # "idle" => cw'[v].item # i
        BY <1>t, <3>1, <3>4, <3>8
      <4> QED BY <1>u, <1>n, <3>3, <3>4, <3>5, <3>8, <4>1 DEF CreateIsNew, IsImage
    <3> QED BY <3>7, <3>8
  <2>2. ASSUME NEW p \in {"put", "create"}, cw' = [cw EXCEPT ![w].pc = p],
               cw[w].pc # "idle", born' = born,
               p = "create" /\ IsImage(cw[w].item) => cw[w].item \in objects'
        PROVE  CreateIsNew(v)'
    <3>l. PICK l \in CreateLocal : l = cw[w]
      BY <1>t
    <3>1. PICK m : m = [l EXCEPT !.pc = p]
      OBVIOUS
    <3>2. m.pc = p /\ m.item = l.item
      BY <3>1 DEF CreateLocal
    <3>3. cw'[w] = m /\ \A x \in CreateWorker \ {w} : cw'[x] = cw[x]
      BY <1>t, <2>2, <3>l, <3>1
    <3>4. \A x \in CreateWorker : cw'[x].item = cw[x].item /\ (cw'[x].pc # "idle" => cw[x].pc # "idle")
      BY <2>2, <3>l, <3>2, <3>3
    <3>5. CASE v = w
      BY <1>n, <2>2, <3>l, <3>2, <3>3, <3>4, <3>5 DEF CreateIsNew, IsImage
    <3>6. CASE v # w
      BY <1>u, <1>n, <2>2, <3>3, <3>4, <3>6 DEF CreateIsNew, IsImage
    <3> QED BY <3>5, <3>6
  <2>3. CASE CheckParent(w)
    <3>1. /\ cw[w].pc # "idle" /\ born' = born
          /\ \/ cw' = AnswerCreate(w)
             \/ cw' = [cw EXCEPT ![w].pc = "put"]
             \/ cw' = [cw EXCEPT ![w].pc = "create"] /\ ~IsImage(cw[w].item)
      BY <2>3 DEF CheckParent
    <3> QED BY <2>a, <2>2, <3>1
  <2>4. CASE PutObject(w)
    <3>1. /\ cw[w].pc # "idle" /\ born' = born /\ cw[w].item \in objects'
          /\ cw' = AnswerCreate(w) \/ cw' = [cw EXCEPT ![w].pc = "create"]
      BY <2>4 DEF PutObject
    <3> QED BY <2>a, <2>2, <3>1
  <2>5. CASE CreateRecord(w)
    <3>1. cw' = AnswerCreate(w) /\ born' = born \cup {cw[w].item} /\ cw[w].pc = "create"
      BY <2>5 DEF CreateRecord, Undisturbed
    <3>2. cw'[w].pc = "idle" /\ \A x \in CreateWorker \ {w} : cw'[x] = cw[x]
      BY <1>t, <2>i, <3>1 DEF AnswerCreate
    <3>3. CASE v = w
      BY <3>2, <3>3 DEF CreateIsNew
    <3>4. CASE v # w
      <4>1. cw'[v] = cw[v] /\ \A x \in CreateWorker : cw'[x].pc # "idle" => cw'[x] = cw[x]
        BY <3>2, <3>4
      <4>2. cw[v].pc # "idle" => cw[v].item # cw[w].item
        BY <1>n, <3>1, <3>4 DEF CreateIsNew
      <4> QED BY <1>u, <1>n, <3>1, <4>1, <4>2 DEF CreateIsNew, IsImage
    <3> QED BY <3>3, <3>4
  <2>6. CASE CreateFails(w)
    BY <2>6, <2>a DEF CreateFails
  <2> QED BY <2>1, <2>3, <2>4, <2>5, <2>6 DEF CreateNext
<1>5. \A d \in DeleteWorker : FramesAreTrue(d)'
  BY <1>u, <1>1, CascadesStayTrue DEF LibraryInductive, FramesAreTrue
<1>6. CreateWorker # {}
  OBVIOUS
<1>7. \A m \in Migrator : mw'[m].pc = "attach" /\ mw'[m].item \in legacy' => mw'[m].item \in objects'
  BY <1>u DEF LibraryInductive
<1>8. (Untyped = {} => \A i \in Item : type[i] = Kind[i])'
  BY <1>u DEF LibraryInductive
<1> QED BY <1>2, <1>3, <1>5, <1>6, <1>7, <1>8 DEF LibraryInductive, FramesAreTrue

\* An activation ends when its record is not in the table.
LEMMA PopKeepsFrames ==
  ASSUME Known, NEW d \in DeleteWorker, Running(d), FramesAreTrue(d),
         Popped(dw[d].stack, dw'[d].stack),
         born' = born, table' \subseteq table,
         Untyped = {} => Top(d).item \notin table'
  PROVE  FramesAreTrue(d)'
<1>t. Cascades
  BY DEF Known, TypeOK, Cascades
<1>s. PICK s \in Seq(Frame) : s = dw[d].stack
  BY <1>t DEF Cascades, DeleteLocal
<1>1. PICK k \in Nat \ {0} : k = Len(s) /\ Top(d) = s[k]
  BY <1>t, <1>s, RunningStack
<1>2. PICK t \in Seq(Frame) : /\ t = dw'[d].stack /\ Len(t) = k - 1
                              /\ \A n \in 1..(k - 1) : t[n] = s[n]
  BY <1>s, <1>1 DEF Popped
<1> SUFFICES ASSUME NEW n \in 1..(k - 1)
             PROVE  FrameIsTrue(dw[d].stack[n], Current(d, n))'
  BY <1>2 DEF FramesAreTrue
<1>3. PICK f \in Frame : f = s[n] /\ f = t[n]
  BY <1>1, <1>2, ElementOfSeq
<1>c. n + 1 \in 1..k /\ n \in 1..k /\ n < k
  BY <1>1
<1>d. Current(d, n) = {s[n + 1].item}
  BY <1>s, <1>1, <1>c DEF Current
<1>4. FrameIsTrue(f, {s[n + 1].item})
  BY <1>s, <1>1, <1>3, <1>c, <1>d DEF FramesAreTrue
<1>5. FrameIsTrue(f, {s[n + 1].item})'
  BY <1>4, FrameStaysTrue
<1>6. CASE n = k - 1
  <2>1. Current(d, n)' = {}
    BY <1>2, <1>6 DEF Current
  <2>2. s[n + 1].item = Top(d).item
    BY <1>1, <1>6
  <2>3. FrameIsTrue(f, {})'
    BY <1>5, <2>2 DEF FrameIsTrue, IsImage, Stages
  <2> QED BY <1>2, <1>3, <2>1, <2>3
<1>7. CASE n # k - 1
  <2>1. n + 1 \in 1..(k - 1) /\ n < k - 1
    BY <1>1, <1>7
  <2>2. Current(d, n)' = {s[n + 1].item}
    BY <1>2, <2>1 DEF Current
  <2> QED BY <1>2, <1>3, <1>5, <2>2
<1> QED BY <1>6, <1>7

\* A new activation on top is true if the one it replaces was, and the ones below
\* it stay as they are.
LEMMA RetopKeepsFrames ==
  ASSUME Known, NEW d \in DeleteWorker, Running(d), FramesAreTrue(d), NEW g \in Frame,
         Retopped(dw[d].stack, dw'[d].stack, g),
         born' = born, table' \subseteq table, g.item = Top(d).item,
         FrameIsTrue(Top(d), {}) => FrameIsTrue(g, {})'
  PROVE  FramesAreTrue(d)'
<1>t. Cascades
  BY DEF Known, TypeOK, Cascades
<1>s. PICK s \in Seq(Frame) : s = dw[d].stack
  BY <1>t DEF Cascades, DeleteLocal
<1>1. PICK k \in Nat \ {0} : k = Len(s) /\ Top(d) = s[k]
  BY <1>t, <1>s, RunningStack
<1>2. PICK t \in Seq(Frame) : /\ t = dw'[d].stack /\ Len(t) = k /\ t[k] = g
                              /\ \A n \in 1..(k - 1) : t[n] = s[n]
  BY <1>s, <1>1 DEF Retopped
<1> SUFFICES ASSUME NEW n \in 1..k
             PROVE  FrameIsTrue(dw[d].stack[n], Current(d, n))'
  BY <1>2 DEF FramesAreTrue
<1>3. CASE n = k
  <2>1. Current(d, n) = {} /\ Current(d, n)' = {} /\ dw'[d].stack[n] = g
    BY <1>s, <1>1, <1>2, <1>3 DEF Current
  <2>2. FrameIsTrue(Top(d), {})
    BY <1>s, <1>1, <1>3, <2>1 DEF FramesAreTrue
  <2> QED BY <2>1, <2>2
<1>4. CASE n # k
  <2>1. PICK f \in Frame : f = s[n] /\ f = t[n]
    BY <1>1, <1>2, <1>4, ElementOfSeq
  <2>2. n \in 1..(k - 1) /\ n + 1 \in 1..k
    BY <1>1, <1>4
  <2>c. n \in 1..k /\ n < k
    BY <2>2
  <2>d. Current(d, n) = {s[n + 1].item}
    BY <1>s, <1>1, <2>c DEF Current
  <2>3. FrameIsTrue(f, {s[n + 1].item})
    BY <1>s, <1>1, <2>1, <2>c, <2>d DEF FramesAreTrue
  <2>4. FrameIsTrue(f, {s[n + 1].item})'
    BY <2>3, FrameStaysTrue
  <2>5. t[n + 1].item = s[n + 1].item
    BY <1>1, <1>2, <2>2
  <2>6. Current(d, n)' = {s[n + 1].item}
    BY <1>2, <2>2, <2>5 DEF Current
  <2> QED BY <1>2, <2>1, <2>4, <2>6
<1> QED BY <1>3, <1>4

\* A child's activation on top of its parent's.
LEMMA PushKeepsFrames ==
  ASSUME Known, NEW d \in DeleteWorker, Running(d), FramesAreTrue(d), NEW g \in Frame,
         NEW i \in Item, Pushed(dw[d].stack, dw'[d].stack, g, Activation(i)),
         born' = born, table' \subseteq table, g.item = Top(d).item,
         FrameIsTrue(Top(d), {}) => FrameIsTrue(g, {i})'
  PROVE  FramesAreTrue(d)'
<1>t. Cascades
  BY DEF Known, TypeOK, Cascades
<1>s. PICK s \in Seq(Frame) : s = dw[d].stack
  BY <1>t DEF Cascades, DeleteLocal
<1>1. PICK k \in Nat \ {0} : k = Len(s) /\ Top(d) = s[k]
  BY <1>t, <1>s, RunningStack
<1>h. PICK h \in Frame : /\ h = Activation(i) /\ h.item = i /\ h.stage = 0
                         /\ h.todo = {} /\ h.seen = {}
  BY ActivationFields
<1>2. PICK t \in Seq(Frame) : /\ t = dw'[d].stack /\ Len(t) = k + 1 /\ t[k] = g /\ t[k + 1] = h
                              /\ \A n \in 1..(k - 1) : t[n] = s[n]
  BY <1>s, <1>1, <1>h DEF Pushed
<1> SUFFICES ASSUME NEW n \in 1..(k + 1)
             PROVE  FrameIsTrue(dw[d].stack[n], Current(d, n))'
  BY <1>2 DEF FramesAreTrue
<1>3. CASE n = k + 1
  <2>1. Current(d, n)' = {} /\ dw'[d].stack[n] = h
    BY <1>2, <1>3 DEF Current
  <2>2. FrameIsTrue(h, {})'
    BY <1>h DEF FrameIsTrue
  <2> QED BY <2>1, <2>2
<1>4. CASE n = k
  <2>a. n < k + 1 /\ ~(n < k) /\ n \in 1..k
    BY <1>1, <1>4
  <2>1. Current(d, n) = {} /\ Current(d, n)' = {i} /\ dw'[d].stack[n] = g
    BY <1>s, <1>1, <1>2, <1>4, <1>h, <2>a DEF Current
  <2>2. FrameIsTrue(Top(d), {})
    BY <1>s, <1>1, <1>4, <2>a, <2>1 DEF FramesAreTrue
  <2> QED BY <2>1, <2>2
<1>5. CASE n # k /\ n # k + 1
  <2>2. n \in 1..(k - 1) /\ n + 1 \in 1..k
    BY <1>1, <1>5
  <2>1. PICK f \in Frame : f = s[n] /\ f = t[n]
    BY <1>1, <1>2, <2>2, ElementOfSeq
  <2>c. n \in 1..k /\ n < k
    BY <2>2
  <2>d. Current(d, n) = {s[n + 1].item}
    BY <1>s, <1>1, <2>c DEF Current
  <2>3. FrameIsTrue(f, {s[n + 1].item})
    BY <1>s, <1>1, <2>1, <2>c, <2>d DEF FramesAreTrue
  <2>4. FrameIsTrue(f, {s[n + 1].item})'
    BY <2>3, FrameStaysTrue
  <2>5. t[n + 1].item = s[n + 1].item
    BY <1>1, <1>2, <2>2
  <2>6. Current(d, n)' = {s[n + 1].item}
    BY <1>2, <2>2, <2>5 DEF Current
  <2> QED BY <1>2, <2>1, <2>4, <2>6
<1> QED BY <1>3, <1>4, <1>5

LEMMA TopIsTrue ==
  ASSUME Known, NEW d \in DeleteWorker, Running(d), FramesAreTrue(d)
  PROVE  Top(d) \in Frame /\ FrameIsTrue(Top(d), {})
<1>1. Cascades
  BY DEF Known, TypeOK, Cascades
<1>2. PICK k \in Nat \ {0} : k = Len(dw[d].stack) /\ Top(d) = dw[d].stack[k] /\ Top(d) \in Frame
  BY <1>1, RunningStack
<1>3. k \in 1..k /\ ~(k < k)
  BY <1>2
<1>4. Current(d, k) = {}
  BY <1>2, <1>3 DEF Current
<1> QED BY <1>2, <1>3, <1>4 DEF FramesAreTrue

LEMMA DeleteKeepsFrames ==
  ASSUME Sound, NEW d \in DeleteWorker, DeleteNext(d)
  PROVE  FramesAreTrue(d)'
<1> USE DEF Sound
<1>t. /\ Cascades /\ index \subseteq born /\ born \subseteq Item /\ table \subseteq born
      /\ bare \subseteq born
  BY DEF Known, TypeOK, Cascades
<1>u. born' = born /\ table' \subseteq table
  BY CascadeSteps DEF Known
<1>f. FramesAreTrue(d)
  BY DEF LibraryInductive, FramesAreTrue
<1>i. Untyped = {} => \A i \in Item : type[i] = Kind[i]
  BY DEF LibraryInductive
<1>a. CASE dw'[d].stack = << >>
  BY <1>a DEF FramesAreTrue
<1>r. ASSUME Running(d), NEW found \in BOOLEAN, dw' = Return(d, found),
             Untyped = {} => Top(d).item \notin table'
      PROVE  FramesAreTrue(d)'
  BY <1>t, <1>u, <1>f, <1>r, ReturnMoves, PopKeepsFrames
<1>s. ASSUME Running(d), NEW n \in {1, 2}, IsImage(Top(d).item),
             dw' = WithStack(d, Append(Below(d), [Top(d) EXCEPT !.stage = n])),
             n = 2 => Top(d).item \in born \ table'
      PROVE  FramesAreTrue(d)'
  <2>1. PICK g \in Frame : Retopped(dw[d].stack, dw'[d].stack, g) /\ NextStage(Top(d), g, n)
    <3>1. n \in 0..2
      OBVIOUS
    <3> QED BY <1>t, <1>s, <3>1, StageMoves
  <2>2. FrameIsTrue(Top(d), {}) => FrameIsTrue(g, {})'
    <3>1. g.item \in Item
      BY DEF Frame
    <3>2. Stages(g.item) = 0
      BY <1>s, <2>1, <3>1, KindFacts DEF NextStage
    <3> QED BY <1>u, <1>s, <2>1, <3>2 DEF FrameIsTrue, NextStage, IsImage, Stages
  <2> QED BY <1>u, <1>f, <1>s, <2>1, <2>2, RetopKeepsFrames DEF NextStage
<1>1. CASE ReceiveDelete(d)
  <2>1. PICK i \in Item : dw'[d].stack = <<Activation(i)>>
    BY <1>t, <1>1, StartMoves
  <2>2. Len(dw'[d].stack) = 1 /\ dw'[d].stack[1] = Activation(i)
    BY <2>1
  <2>a. Current(d, 1)' = {}
    BY <2>2 DEF Current
  <2>b. FrameIsTrue(Activation(i), {})'
    BY ActivationFields DEF FrameIsTrue
  <2>3. FrameIsTrue(dw[d].stack[1], Current(d, 1))'
    BY <2>2, <2>a, <2>b
  <2>4. \A n \in 1..1 : n = 1
    OBVIOUS
  <2> QED BY <2>2, <2>3, <2>4 DEF FramesAreTrue
<1>2. CASE ListChildren(d)
  <2>1. Running(d) /\ table' = table
    BY <1>2 DEF ListChildren
  <2>2. PICK g, found : /\ g \in Frame /\ Retopped(dw[d].stack, dw'[d].stack, g)
                        /\ Listed(Top(d), g, found)
    BY <1>t, <1>2, ListMoves
  <2>3. FrameIsTrue(Top(d), {}) => FrameIsTrue(g, {})'
    <3> SUFFICES ASSUME FrameIsTrue(Top(d), {}) PROVE FrameIsTrue(g, {})'
      OBVIOUS
    <3>f. PICK f \in Frame : f = Top(d)
      BY <1>f, <2>1, TopIsTrue
    <3>1. /\ g.item = f.item /\ g.stage = f.stage + 1 /\ g.stage <= Stages(f.item)
          /\ f.todo = {} /\ g.todo = found /\ g.seen = f.seen \cup found
          /\ f.item \in Item /\ f.stage \in 0..2
      BY <2>2, <3>f DEF Listed, Frame
    <3>2. ~IsImage(g.item)
      BY <3>1, KindFacts
    <3>3. g.seen \subseteq born
      BY <1>t, <2>2, <3>f, <3>1 DEF FrameIsTrue, Listed
    <3>4. Untyped = {} => (g.seen \ g.todo) \cap table = {}
      BY <3>f, <3>1 DEF FrameIsTrue
    <3>5. ASSUME Untyped = {}, CreateWorker = {}, NEW i \in table, NEW k \in 1..Stages(g.item),
                 Parent[i] = g.item, k <= g.stage, Kind[i] = ChildKinds[Kind[g.item]][k]
          PROVE  i \in g.seen
      <4>1. CASE k <= f.stage
        BY <3>f, <3>1, <3>5, <4>1 DEF FrameIsTrue
      <4>2. CASE ~(k <= f.stage)
        <5>1. k \in Int
          OBVIOUS
        <5>2. k = g.stage
          BY <3>1, <3>5, <4>2, <5>1
        <5>3. i \in index /\ type[i] = Kind[i]
          <6>1. Parent[i] # None /\ i \in Item
            BY <1>t, <3>1, <3>5, TreeAssumption
          <6> QED BY <1>t, <1>i, <3>5, <6>1 DEF LibraryInductive, Indexed
        <5>4. i \in found
          BY <2>2, <3>f, <3>1, <3>5, <5>2, <5>3 DEF Listed
        <5> QED BY <3>1, <5>4
      <4> QED BY <4>1, <4>2
    <3> QED BY <1>u, <2>1, <3>2, <3>3, <3>4, <3>5 DEF FrameIsTrue, IsImage, Stages
  <2> QED BY <1>u, <1>f, <2>1, <2>2, <2>3, RetopKeepsFrames DEF Listed
<1>3. CASE DeleteChild(d)
  <2>1. Running(d) /\ table' = table
    BY <1>3 DEF DeleteChild
  <2>2. PICK i \in Top(d).todo, g \in Frame :
              /\ i \in Item /\ Pushed(dw[d].stack, dw'[d].stack, g, Activation(i))
              /\ g.item = Top(d).item /\ g.stage = Top(d).stage
              /\ g.todo = Top(d).todo \ {i} /\ g.seen = Top(d).seen
    BY <1>t, <1>3, ChildMoves
  <2>3. FrameIsTrue(Top(d), {}) => FrameIsTrue(g, {i})'
    BY <1>u, <2>1, <2>2 DEF FrameIsTrue, IsImage, Stages
  <2> QED BY <1>u, <1>f, <2>1, <2>2, <2>3, PushKeepsFrames
<1>4. CASE GetImage(d)
  <2>1. /\ Running(d) /\ table' = table /\ IsImage(Top(d).item)
        /\ \/ ~Found(Top(d).item) /\ dw' = Return(d, FALSE)
           \/ dw' = Abort(d)
           \/ dw' = WithStack(d, Append(Below(d), [Top(d) EXCEPT !.stage = 1]))
    BY <1>4, Zenon DEF GetImage
  <2>2. Top(d).item \in Item
    BY <1>f, <2>1, TopIsTrue DEF Frame
  <2>3. CASE ~Found(Top(d).item) /\ dw' = Return(d, FALSE)
    BY <1>i, <1>r, <2>1, <2>2, <2>3 DEF Found
  <2>4. CASE dw' = Abort(d)
    BY <1>t, <1>a, <2>4, AbortMoves
  <2>5. CASE dw' = WithStack(d, Append(Below(d), [Top(d) EXCEPT !.stage = 1]))
    BY <1>s, <2>1, <2>5
  <2> QED BY <2>1, <2>3, <2>4, <2>5
<1>5. CASE RemoveRecord(d)
  <2>0. Running(d)
    BY <1>5 DEF RemoveRecord
  <2>2. Top(d).item \in Item
    BY <1>f, <2>0, TopIsTrue DEF Frame
  <2>3. CASE Found(Top(d).item)
    <3>1. table' = table \ {Top(d).item}
      BY <1>5, <2>3 DEF RemoveRecord
    <3>2. \/ dw' = Abort(d)
          \/ \E found \in BOOLEAN : dw' = Return(d, found)
          \/ /\ IsImage(Top(d).item)
             /\ dw' = WithStack(d, Append(Below(d), [Top(d) EXCEPT !.stage = 2]))
      BY <1>5, <2>3, Zenon DEF RemoveRecord
    <3>3. CASE dw' = Abort(d)
      BY <1>t, <1>a, <3>3, AbortMoves
    <3>4. CASE \E found \in BOOLEAN : dw' = Return(d, found)
      BY <1>r, <2>0, <3>1, <3>4
    <3>5. CASE /\ IsImage(Top(d).item)
               /\ dw' = WithStack(d, Append(Below(d), [Top(d) EXCEPT !.stage = 2]))
      <4>1. Top(d).item \in born \ table'
        BY <1>t, <2>3, <3>1 DEF Found
      <4> QED BY <1>s, <2>0, <3>5, <4>1
    <3> QED BY <3>2, <3>3, <3>4, <3>5
  <2>4. CASE ~Found(Top(d).item)
    <3>1. dw' = Return(d, FALSE) /\ table' = table
      BY <1>5, <2>4 DEF RemoveRecord
    <3> QED BY <1>i, <1>r, <2>0, <2>2, <2>4, <3>1 DEF Found
  <2> QED BY <2>3, <2>4
<1>6. CASE DeleteObject(d)
  <2>1. /\ Running(d) /\ table' = table /\ IsImage(Top(d).item) /\ Top(d).stage = 2
        /\ dw' = Return(d, TRUE)
    BY <1>6 DEF DeleteObject
  <2>2. Top(d).item \notin table
    BY <1>f, <2>1, TopIsTrue DEF FrameIsTrue
  <2> QED BY <1>r, <2>1, <2>2
<1>7. CASE DeleteFails(d)
  BY <1>t, <1>a, <1>7, AbortMoves DEF DeleteFails
<1>8. CASE EndDelete(d)
  BY <1>t, <1>a, <1>8, IdleMoves
<1> QED BY <1>1, <1>2, <1>3, <1>4, <1>5, <1>6, <1>7, <1>8 DEF DeleteNext, DeleteStep

\* What is removed has no child in the table any more.
LEMMA RemovalsLeaveNoOrphan ==
  ASSUME Sound, Untyped = {}, CreateWorker = {}, NEW d \in DeleteWorker, DeleteNext(d)
  PROVE  Indexed' \subseteq index /\ NoOrphans'
<1> USE DEF Sound
<1>1. table' \subseteq table /\ Indexed' \subseteq index /\ NoOrphans
  <2>1. table' \subseteq table /\ Indexed \subseteq index /\ NoOrphans
    BY CascadeSteps DEF LibraryInductive, Known
  <2> QED BY <2>1 DEF Indexed
<1>2. CASE table' = table
  BY <1>1, <1>2 DEF NoOrphans
<1>3. CASE table' # table
  <2>1. RemoveRecord(d)
    BY <1>3 DEF DeleteNext, DeleteStep, ReceiveDelete, ListChildren, DeleteChild, GetImage,
                DeleteObject, DeleteFails, EndDelete
  <2>2. Running(d) /\ ReadyToRemove(Top(d)) /\ table' = table \ {Top(d).item}
    BY <1>3, <2>1 DEF RemoveRecord
  <2>f. PICK f \in Frame : f = Top(d) /\ FrameIsTrue(f, {})
    BY <2>2, TopIsTrue DEF LibraryInductive, FramesAreTrue
  <2>3. ASSUME NEW i \in table', Parent[i] = f.item PROVE FALSE
    <3>1. i \in table /\ i \in Item /\ f.item \in Item /\ Parent[i] # None
      BY <1>1, <2>3, TreeAssumption DEF Known, TypeOK, Frame
    <3>2. PICK k \in 1..Stages(f.item) : ChildKinds[Kind[f.item]][k] = Kind[i]
      BY <2>3, <3>1, TreeAssumption
    <3>3. ~IsImage(f.item)
      <4>1. Stages(f.item) # 0
        BY <3>2
      <4> QED BY <3>1, <4>1, KindFacts
    <3>4. f.todo = {} /\ f.stage = Stages(f.item) /\ k <= f.stage
      BY <2>2, <2>f, <3>1, <3>2, <3>3, KindFacts DEF ReadyToRemove
    <3>5. i \in f.seen
      BY <2>3, <2>f, <3>1, <3>2, <3>4 DEF FrameIsTrue
    <3>6. f.seen \cap table = {}
      BY <2>f, <3>4 DEF FrameIsTrue
    <3> QED BY <3>1, <3>5, <3>6
  <2> QED BY <1>1, <2>2, <2>f, <2>3 DEF NoOrphans
<1> QED BY <1>2, <1>3

LEMMA DeleteKeepsSound ==
  ASSUME Sound, NEW d \in DeleteWorker, DeleteNext(d)
  PROVE  LibraryInductive'
<1> USE DEF Sound
<1>u. /\ UNCHANGED <<index, type, taken, born, cw, mw, bw>>
      /\ table' \subseteq table /\ bare' \subseteq bare /\ objects' \subseteq objects
      /\ \/ legacy' = legacy /\ table' = table
         \/ \E i : legacy' = legacy \ {i} /\ table' = table \ {i}
      /\ \A c \in DeleteWorker \ {d} : dw'[c] = dw[c]
  BY CascadeSteps DEF Known, OnlyCascade
<1>t. legacy \subseteq table /\ table \subseteq born /\ born \subseteq Item
  BY DEF Known, TypeOK
<1>1. \A i \in objects \ objects' : i \in born \ table
  <2>1. CASE DeleteObject(d)
    <3>1. Running(d) /\ IsImage(Top(d).item) /\ Top(d).stage = 2
      BY <2>1 DEF DeleteObject
    <3>2. Top(d).item \in born \ table
      BY <3>1, TopIsTrue DEF LibraryInductive, FramesAreTrue, FrameIsTrue
    <3> QED BY <2>1, <3>2 DEF DeleteObject
  <2>2. CASE ~DeleteObject(d)
    BY <2>2 DEF DeleteNext, DeleteStep, ReceiveDelete, ListChildren, DeleteChild, GetImage,
                RemoveRecord, DeleteFails, EndDelete
  <2> QED BY <2>1, <2>2
<1>2. RecordHasObject'
  BY <1>u, <1>1 DEF LibraryInductive, RecordHasObject, IsImage
<1>3. \A w \in CreateWorker : CreateIsNew(w)'
  BY <1>u, <1>1 DEF LibraryInductive, CreateIsNew, IsImage
<1>6. \A m \in Migrator :
        mw'[m].pc = "attach" /\ mw'[m].item \in legacy' => mw'[m].item \in objects'
  BY <1>u, <1>t, <1>1 DEF LibraryInductive
<1>7. \A c \in DeleteWorker : FramesAreTrue(c)'
  <2>1. FramesAreTrue(d)'
    BY DeleteKeepsFrames
  <2>2. ASSUME NEW c \in DeleteWorker \ {d} PROVE FramesAreTrue(c)'
    BY <1>u, CascadesStayTrue DEF LibraryInductive, FramesAreTrue
  <2> QED BY <2>1, <2>2
<1>8. (Untyped = {} => \A i \in Item : type[i] = Kind[i])'
  BY <1>u DEF LibraryInductive
<1>9. (Untyped = {} /\ CreateWorker = {} => Indexed \subseteq index /\ NoOrphans)'
  BY <1>u, RemovalsLeaveNoOrphan
<1> QED BY <1>2, <1>3, <1>6, <1>7, <1>8, <1>9 DEF LibraryInductive, FramesAreTrue

LEMMA MigrateKeepsSound ==
  ASSUME Sound, NEW m \in Migrator, MigrateNext(m)
  PROVE  LibraryInductive'
<1> USE DEF Sound
<1>1. UNCHANGED <<table, index, type, bare, taken, born, cw, dw, bw>>
  BY MigrateSteps DEF Known
<1>2. PICK g \in MigrateLocal : mw' = [mw EXCEPT ![m] = g] /\ MigrationMoves(mw[m], g)
  BY MigrateSteps DEF Known
<1>l. PICK l \in MigrateLocal : l = mw[m]
  BY DEF Known, TypeOK
<1>3. /\ l.pc = "attach" /\ l.item \in legacy => l.item \in objects
      /\ mw \in [Migrator -> MigrateLocal]
  BY <1>l DEF LibraryInductive, Known, TypeOK
<1>4. /\ objects \subseteq objects'
      /\ legacy' = legacy \/ (l.pc = "attach" /\ legacy' = legacy \ {l.item})
      /\ g.pc = "attach" => g.item \in objects'
  BY <1>l, <1>2 DEF MigrationMoves, ScanBegins, PageComes, EntryBegins, ObjectIsCopied,
                    EntryEnds, RunEnds
<1>5. RecordHasObject'
  <2>1. \A i \in legacy \ legacy' : i \in objects
    BY <1>3, <1>4
  <2> QED BY <1>1, <1>4, <2>1 DEF LibraryInductive, RecordHasObject, IsImage
<1>6. \A w \in CreateWorker : CreateIsNew(w)'
  BY <1>1, <1>4 DEF LibraryInductive, CreateIsNew, IsImage
<1>7. \A n \in Migrator :
        mw'[n].pc = "attach" /\ mw'[n].item \in legacy' => mw'[n].item \in objects'
  <2>1. ASSUME NEW n \in Migrator, n # m PROVE mw'[n] = mw[n]
    BY <1>2, <1>3, <2>1
  <2>2. mw'[m] = g
    BY <1>2, <1>3
  <2> QED BY <1>4, <2>1, <2>2 DEF LibraryInductive
<1>8. \A d \in DeleteWorker : FramesAreTrue(d)'
  BY <1>1, CascadesStayTrue DEF LibraryInductive, FramesAreTrue
<1>9. /\ (Untyped = {} => \A i \in Item : type[i] = Kind[i])'
      /\ (Untyped = {} /\ CreateWorker = {} => Indexed \subseteq index /\ NoOrphans)'
  BY <1>1 DEF LibraryInductive, Indexed, NoOrphans
<1> QED BY <1>5, <1>6, <1>7, <1>8, <1>9 DEF LibraryInductive, FramesAreTrue

LEMMA BackfillKeepsSound ==
  ASSUME Sound, NEW b \in Backfiller, BackfillNext(b)
  PROVE  LibraryInductive'
<1> USE DEF Sound
<1>1. UNCHANGED <<table, index, legacy, objects, taken, born, cw, dw, mw>>
  BY BackfillSteps DEF Known
<1>2. PICK g \in BackfillLocal : bw' = [bw EXCEPT ![b] = g] /\ BackfillMoves(bw[b], g)
  BY BackfillSteps DEF Known
<1>3. /\ bw[b].page \subseteq Scannable /\ table' = table
  BY BackfillSteps DEF Known, WorkIsKnown, Scannable
<1>4. Untyped = {} => type' = type
  <2>1. type' = type \/ \E i \in bw[b].page : type' = [type EXCEPT ![i] = InferredType(i)]
    BY <1>2 DEF BackfillMoves
  <2> QED BY <1>3, <2>1 DEF Scannable
<1>7. (Untyped = {} => \A i \in Item : type[i] = Kind[i])'
  BY <1>4 DEF LibraryInductive
<1>8. \A d \in DeleteWorker : FramesAreTrue(d)'
  BY <1>1, CascadesStayTrue DEF LibraryInductive, FramesAreTrue
<1>9. /\ RecordHasObject'
      /\ \A w \in CreateWorker : CreateIsNew(w)'
      /\ \A m \in Migrator :
           mw'[m].pc = "attach" /\ mw'[m].item \in legacy' => mw'[m].item \in objects'
      /\ (Untyped = {} /\ CreateWorker = {} => Indexed \subseteq index /\ NoOrphans)'
  BY <1>1 DEF LibraryInductive, RecordHasObject, CreateIsNew, Indexed, NoOrphans, IsImage
<1> QED BY <1>7, <1>8, <1>9 DEF LibraryInductive, FramesAreTrue

LEMMA IndexKeepsSound ==
  ASSUME Sound, Propagate
  PROVE  LibraryInductive'
<1> USE DEF Sound
<1>1. UNCHANGED <<table, legacy, type, bare, objects, taken, born, cw, dw, mw, bw>>
  BY DEF Propagate
<1>2. Indexed' = Indexed /\ (Indexed \subseteq index => Indexed \subseteq index')
  BY DEF Propagate, Indexed
<1>3. \A d \in DeleteWorker : FramesAreTrue(d)'
  BY <1>1, CascadesStayTrue DEF LibraryInductive, FramesAreTrue
<1> QED BY <1>1, <1>2, <1>3
        DEF LibraryInductive, FramesAreTrue, RecordHasObject, CreateIsNew, NoOrphans, IsImage

LEMMA SoundStep ==
  ASSUME Undisturbed
  PROVE  Sound /\ [Next]_vars => Sound'
<1> SUFFICES ASSUME Sound, [Next]_vars PROVE Sound'
  OBVIOUS
<1>1. Known'
  BY KnownStep DEF Sound
<1>2. CASE UNCHANGED vars
  <2>1. \A d \in DeleteWorker : FramesAreTrue(d)'
    BY <1>2, CascadesStayTrue DEF vars, Sound, LibraryInductive, FramesAreTrue
  <2>2. LibraryInductive'
    BY <1>2, <2>1 DEF vars, Sound, LibraryInductive, FramesAreTrue, RecordHasObject, CreateIsNew,
                NoOrphans, IsImage, Indexed
  <2> QED BY <1>1, <2>2 DEF Sound
<1>3. CASE Next
  <2>1. LibraryInductive'
    BY <1>3, CreateKeepsSound, DeleteKeepsSound, MigrateKeepsSound, BackfillKeepsSound,
       IndexKeepsSound DEF Next
  <2> QED BY <1>1, <2>1 DEF Sound
<1> QED BY <1>2, <1>3

LEMMA SoundInit == Init => Sound
  BY KnownInit, LibraryInit DEF Sound

\* The inductive invariant of the library: what each upload, backfill, migration
\* and activation of a cascade knows of records and objects stays true, whatever
\* the others do and however late or often a backfill writes what it has scanned,
\* while no create is sent twice.
THEOREM LibraryHolds ==
  ASSUME Undisturbed
  PROVE  Spec => []LibraryInductive
<1>1. Sound /\ [Next]_vars => Sound'
  BY SoundStep
<1>2. Sound => LibraryInductive
  BY DEF Sound
<1> QED BY <1>1, <1>2, SoundInit, PTL DEF Spec

\* No record names a missing image, whatever uploads, migrations and cascades
\* work on the same images, while no create is sent twice.
THEOREM ImagesHaveTheirObjects ==
  ASSUME Undisturbed
  PROVE  Spec => []RecordHasObject
<1>1. LibraryInductive => RecordHasObject
  BY DEF LibraryInductive
<1> QED BY <1>1, LibraryHolds, PTL

\* A record comes to the table once.
LEMMA RecordsComeOnce ==
  ASSUME Undisturbed, Sound, [Next]_vars
  PROVE  table' \cap born \subseteq table
<1> USE DEF Sound
<1>1. CASE table' \subseteq table
  BY <1>1
<1>2. ASSUME NEW w \in CreateWorker, CreateNext(w) PROVE table' \cap born \subseteq table
  <2>1. cw[w].pc = "create" => cw[w].item \notin born
    BY DEF LibraryInductive, CreateIsNew
  <2> QED BY <1>2, <2>1 DEF CreateNext, ReceiveCreate, CheckParent, PutObject, CreateRecord,
                            CreateFails
<1>3. ASSUME NEW b \in Backfiller, BackfillNext(b) PROVE table' \subseteq table
  BY <1>3, BackfillSteps DEF Known
<1>4. ASSUME NEW d \in DeleteWorker, DeleteNext(d) PROVE table' \subseteq table
  BY <1>4, CascadeSteps DEF Known
<1>5. ASSUME NEW m \in Migrator, MigrateNext(m) PROVE table' \subseteq table
  BY <1>5, MigrateSteps DEF Known
<1>6. Propagate \/ UNCHANGED vars => table' \subseteq table
  BY DEF Propagate, vars
<1> QED BY <1>1, <1>2, <1>3, <1>4, <1>5, <1>6 DEF Next

\* No record returns once it is deleted: neither by a create, nor by a migration
\* that has read it before. What an update of the backfill leaves, late or sent
\* again, is a bare id, and no migration makes that a record.
THEOREM DeletesAreFinal ==
  ASSUME Undisturbed
  PROVE  Spec => DeletedStaysDeleted
<1>1. Sound /\ [Next]_vars => Sound'
  BY SoundStep
<1>2. Sound /\ [Next]_vars => [table' \cap born \subseteq table]_vars
  BY RecordsComeOnce
<1> QED BY <1>1, <1>2, SoundInit, PTL DEF Spec, DeletedStaysDeleted

\* Where every record has its type, a cascade passes on to the next child, and
\* in the end to the parent, only when each child that it has listed is gone:
\* with any number of cascades over the same tree, at any lag of the index.
THEOREM CascadesFinishChildren ==
  ASSUME Undisturbed, Untyped = {}
  PROVE  Spec => []ListedChildrenAreGone
<1>1. LibraryInductive => ListedChildrenAreGone
  BY DEF LibraryInductive, FrameIsTrue, ListedChildrenAreGone
<1> QED BY <1>1, LibraryHolds, PTL

\* Where every record has its type and nothing is created, no cascade removes a
\* parent before its children, however many work on the same tree and wherever
\* they stop.
THEOREM CascadesLeaveNoOrphans ==
  ASSUME Untyped = {}, CreateWorker = {}
  PROVE  Spec => []NoOrphans
<1>1. Undisturbed
  BY DEF Undisturbed
<1>2. Spec => []LibraryInductive
  BY <1>1, LibraryHolds
<1>3. LibraryInductive => NoOrphans
  BY DEF LibraryInductive
<1> QED BY <1>2, <1>3, PTL

----------------------------------------------------------------------------
(* Where a cascade works, and that it comes to an end *)

LEMMA LevelFacts ==
  ASSUME NEW i \in Item
  PROVE  /\ Level(i) \in 1..5
         /\ Parent[i] # None => /\ Parent[i] \in Item /\ ~IsImage(Parent[i])
                                /\ Level(i) = Level(Parent[i]) + 1
<1>1. Kind[i] \in Kinds /\ Parent[i] \in Item \cup {None}
  BY TreeAssumption
<1>2. Level(i) \in 1..5
  BY <1>1 DEF Level, Kinds
<1>3. ASSUME Parent[i] # None
      PROVE  Parent[i] \in Item /\ ~IsImage(Parent[i]) /\ Level(i) = Level(Parent[i]) + 1
  <2>1. PICK p \in Item : p = Parent[i]
    BY <1>1, <1>3
  <2>2. PICK n \in 1..Stages(p) : ChildKinds[Kind[p]][n] = Kind[i]
    BY <1>3, <2>1, TreeAssumption
  <2>3. Kind[p] \in Kinds
    BY TreeAssumption
  <2>4. Stages(p) = Len(ChildKinds[Kind[p]])
    BY DEF Stages
  <2>5. CASE Kind[p] = "category"
    BY <2>1, <2>2, <2>4, <2>5 DEF ChildKinds, Level, IsImage, ImageKinds
  <2>6. CASE Kind[p] = "deck"
    BY <2>1, <2>2, <2>4, <2>6 DEF ChildKinds, Level, IsImage, ImageKinds
  <2>7. CASE Kind[p] = "card"
    <3>1. n \in 1..2
      BY <2>2, <2>4, <2>7 DEF ChildKinds
    <3>2. CASE n = 1
      BY <2>1, <2>2, <2>7, <3>2 DEF ChildKinds, Level, IsImage, ImageKinds
    <3>3. CASE n = 2
      BY <2>1, <2>2, <2>7, <3>3 DEF ChildKinds, Level, IsImage, ImageKinds
    <3> QED BY <3>1, <3>2, <3>3
  <2>8. CASE Kind[p] = "section"
    BY <2>1, <2>2, <2>4, <2>8 DEF ChildKinds, Level, IsImage, ImageKinds
  <2>9. CASE Kind[p] \in ImageKinds
    BY <2>2, <2>4, <2>9 DEF ChildKinds, ImageKinds
  <2> QED BY <2>3, <2>5, <2>6, <2>7, <2>8, <2>9 DEF Kinds, ImageKinds
<1> QED BY <1>2, <1>3

\* How the activation on top goes on.
GoesOn(f, g) ==
    \/ \E found : Listed(f, g, found)
    \/ IsImage(f.item) /\ f.stage = 0 /\ f.item \notin legacy /\ NextStage(f, g, 1)
    \/ IsImage(f.item) /\ f.stage = 1 /\ NextStage(f, g, 2)

\* How it turns to a child.
TurnsTo(f, g, i) ==
    /\ i \in f.todo /\ i \in Item /\ g.item = f.item /\ g.stage = f.stage
    /\ g.todo = f.todo \ {i} /\ g.seen = f.seen

LEMMA CascadeMoves ==
  ASSUME TypeOK, NEW d \in DeleteWorker, DeleteNext(d)
  PROVE  \/ dw'[d].stack = << >>
         \/ ~Running(d) /\ \E i \in Item : dw'[d].stack = <<Activation(i)>>
         \/ Running(d) /\ Popped(dw[d].stack, dw'[d].stack)
         \/ Running(d) /\ \E g \in Frame : /\ Retopped(dw[d].stack, dw'[d].stack, g)
                                           /\ GoesOn(Top(d), g)
         \/ Running(d) /\ \E g \in Frame : \E i \in Item :
                /\ Pushed(dw[d].stack, dw'[d].stack, g, Activation(i))
                /\ TurnsTo(Top(d), g, i)
<1>t. Cascades /\ index \subseteq Item /\ born \subseteq Item
  BY DEF TypeOK, Cascades
<1>1. CASE ReceiveDelete(d)
  BY <1>t, <1>1, StartMoves DEF ReceiveDelete
<1>2. CASE ListChildren(d)
  BY <1>t, <1>2, ListMoves DEF GoesOn
<1>3. CASE DeleteChild(d)
  BY <1>t, <1>3, ChildMoves DEF TurnsTo
<1>a. ASSUME dw' = Abort(d) PROVE dw'[d].stack = << >>
  BY <1>t, <1>a, AbortMoves
<1>r. ASSUME Running(d), NEW found \in BOOLEAN, dw' = Return(d, found)
      PROVE  Popped(dw[d].stack, dw'[d].stack)
  BY <1>t, <1>r, ReturnMoves
<1>4. CASE GetImage(d)
  <2>1. Running(d)
    BY <1>4 DEF GetImage
  <2>2. \/ dw' = Return(d, FALSE)
        \/ dw' = Abort(d)
        \/ /\ IsImage(Top(d).item) /\ Top(d).stage = 0 /\ Top(d).item \notin legacy
           /\ dw' = WithStack(d, Append(Below(d), [Top(d) EXCEPT !.stage = 1]))
    BY <1>4, Zenon DEF GetImage
  <2>3. 1 \in 0..2
    OBVIOUS
  <2> QED BY <1>t, <1>a, <1>r, <2>1, <2>2, <2>3, StageMoves DEF GoesOn
<1>5. CASE RemoveRecord(d)
  <2>1. Running(d)
    BY <1>5 DEF RemoveRecord
  <2>2. \/ \E found \in BOOLEAN : dw' = Return(d, found)
        \/ dw' = Abort(d)
        \/ /\ IsImage(Top(d).item) /\ ReadyToRemove(Top(d))
           /\ dw' = WithStack(d, Append(Below(d), [Top(d) EXCEPT !.stage = 2]))
    BY <1>5, Zenon DEF RemoveRecord
  <2>3. CASE /\ IsImage(Top(d).item) /\ ReadyToRemove(Top(d))
             /\ dw' = WithStack(d, Append(Below(d), [Top(d) EXCEPT !.stage = 2]))
    <3>1. Top(d).stage = 1 /\ 2 \in 0..2
      BY <2>3 DEF ReadyToRemove
    <3> QED BY <1>t, <2>1, <2>3, <3>1, StageMoves DEF GoesOn
  <2> QED BY <1>a, <1>r, <2>1, <2>2, <2>3
<1>6. CASE DeleteObject(d)
  BY <1>6, <1>r DEF DeleteObject
<1>7. CASE DeleteFails(d)
  BY <1>7, <1>a DEF DeleteFails
<1>8. CASE EndDelete(d)
  BY <1>t, <1>8, IdleMoves
<1> QED BY <1>1, <1>2, <1>3, <1>4, <1>5, <1>6, <1>7, <1>8 DEF DeleteNext, DeleteStep

FramesArePlaced(d) ==
    \A n \in 1..Len(dw[d].stack) : FrameIsPlaced(dw[d].stack[n], n)

\* An image that has its key keeps it.
LEMMA PlaceIsKept ==
  ASSUME NEW f, NEW n, FrameIsPlaced(f, n), legacy' \subseteq legacy
  PROVE  FrameIsPlaced(f, n)'
  BY DEF FrameIsPlaced, IsImage, Level, Stages

LEMMA ActivationIsPlaced ==
  ASSUME NEW i \in Item, NEW n \in Nat, n <= Level(i)
  PROVE  FrameIsPlaced(Activation(i), n)'
<1>1. PICK h : h = Activation(i) /\ h.item = i /\ h.stage = 0 /\ h.todo = {}
  BY ActivationFields
<1>2. Stages(i) \in 0..2
  BY KindFacts
<1>3. FrameIsPlaced(h, n)'
  BY <1>1, <1>2 DEF FrameIsPlaced, IsImage, Level, Stages
<1> QED BY <1>1, <1>3

LEMMA TopIsPlaced ==
  ASSUME TypeOK, NEW d \in DeleteWorker, Running(d), FramesArePlaced(d)
  PROVE  /\ Top(d) \in Frame /\ Len(dw[d].stack) \in Nat \ {0}
         /\ FrameIsPlaced(Top(d), Len(dw[d].stack))
<1>1. Cascades
  BY DEF TypeOK, Cascades
<1>2. PICK k \in Nat \ {0} : k = Len(dw[d].stack) /\ Top(d) = dw[d].stack[k] /\ Top(d) \in Frame
  BY <1>1, RunningStack
<1>3. k \in 1..k
  BY <1>2
<1> QED BY <1>2, <1>3 DEF FramesArePlaced

LEMMA CascadeStaysPlaced ==
  ASSUME TypeOK, NEW d \in DeleteWorker, FramesArePlaced(d), DeleteNext(d),
         legacy' \subseteq legacy
  PROVE  FramesArePlaced(d)'
<1>1. CASE dw'[d].stack = << >>
  <2>1. Len(dw'[d].stack) = 0
    BY <1>1
  <2> QED BY <2>1 DEF FramesArePlaced
<1>2. CASE \E i \in Item : dw'[d].stack = <<Activation(i)>>
  <2>1. PICK i \in Item : dw'[d].stack = <<Activation(i)>>
    BY <1>2
  <2>2. Len(dw'[d].stack) = 1 /\ dw'[d].stack[1] = Activation(i)
    BY <2>1
  <2>3. 1 <= Level(i)
    BY LevelFacts
  <2>4. FrameIsPlaced(Activation(i), 1)'
    BY <2>3, ActivationIsPlaced
  <2> QED BY <2>2, <2>4 DEF FramesArePlaced
<1> SUFFICES ASSUME Running(d),
                    \/ Popped(dw[d].stack, dw'[d].stack)
                    \/ \E g \in Frame : /\ Retopped(dw[d].stack, dw'[d].stack, g)
                                        /\ GoesOn(Top(d), g)
                    \/ \E g \in Frame : \E i \in Item :
                          /\ Pushed(dw[d].stack, dw'[d].stack, g, Activation(i))
                          /\ TurnsTo(Top(d), g, i)
             PROVE  FramesArePlaced(d)'
  BY <1>1, <1>2, CascadeMoves
<1>f. PICK f \in Frame, k \in Nat \ {0} :
        f = Top(d) /\ k = Len(dw[d].stack) /\ FrameIsPlaced(f, k)
  BY TopIsPlaced
<1>s. PICK s \in Seq(Frame) : s = dw[d].stack
  BY DEF TypeOK, DeleteLocal
<1>b. \A n \in 1..k : FrameIsPlaced(s[n], n)'
  <2> SUFFICES ASSUME NEW n \in 1..k PROVE FrameIsPlaced(s[n], n)'
    OBVIOUS
  <2>1. FrameIsPlaced(s[n], n)
    BY <1>f, <1>s DEF FramesArePlaced
  <2> QED BY <2>1, PlaceIsKept
<1>i. f.item \in Item /\ Stages(f.item) \in 0..2 /\ (IsImage(f.item) => Stages(f.item) = 0)
  BY KindFacts DEF Frame
<1>3. CASE Popped(dw[d].stack, dw'[d].stack)
  <2>1. Len(dw'[d].stack) = k - 1 /\ \A n \in 1..(k - 1) : dw'[d].stack[n] = s[n]
    BY <1>f, <1>s, <1>3 DEF Popped
  <2>2. \A n \in 1..(k - 1) : n \in 1..k
    BY <1>f
  <2> QED BY <1>b, <2>1, <2>2 DEF FramesArePlaced
<1>4. CASE \E g \in Frame : Retopped(dw[d].stack, dw'[d].stack, g) /\ GoesOn(Top(d), g)
  <2>1. PICK g \in Frame : Retopped(dw[d].stack, dw'[d].stack, g) /\ GoesOn(f, g)
    BY <1>f, <1>4
  <2>2. /\ Len(dw'[d].stack) = k /\ dw'[d].stack[k] = g
        /\ \A n \in 1..(k - 1) : dw'[d].stack[n] = s[n]
    BY <1>f, <1>s, <2>1 DEF Retopped
  <2>3. FrameIsPlaced(g, k)'
    <3>1. CASE \E found : Listed(f, g, found)
      <4>1. PICK found : Listed(f, g, found)
        BY <3>1
      <4>2. /\ g.item = f.item /\ g.stage <= Stages(f.item) /\ g.stage = f.stage + 1
            /\ g.todo \subseteq {i \in Item : Parent[i] = f.item} /\ f.stage \in 0..2
        BY <4>1 DEF Listed, Frame
      <4>3. ~IsImage(f.item)
        BY <1>i, <4>2
      <4>4. k <= Level(f.item)
        BY <1>f DEF FrameIsPlaced
      <4> QED BY <4>2, <4>3, <4>4 DEF FrameIsPlaced, IsImage, Level, Stages
    <3>2. CASE \E n \in 1..2 : /\ IsImage(f.item) /\ NextStage(f, g, n)
                               /\ f.item \notin legacy
      <4>1. g.item = f.item /\ g.todo = f.todo
        BY <3>2 DEF NextStage
      <4> QED BY <1>f, <3>2, <4>1 DEF FrameIsPlaced, IsImage, Level, Stages
    <3>3. IsImage(f.item) /\ f.stage = 1 => f.item \notin legacy
      BY <1>f DEF FrameIsPlaced
    <3>4. 1 \in 1..2 /\ 2 \in 1..2
      OBVIOUS
    <3> QED BY <2>1, <3>1, <3>2, <3>3, <3>4 DEF GoesOn
  <2>4. \A n \in 1..k : n = k \/ n \in 1..(k - 1)
    BY <1>f
  <2> QED BY <1>b, <2>2, <2>3, <2>4 DEF FramesArePlaced
<1>5. CASE \E g \in Frame : \E i \in Item :
              /\ Pushed(dw[d].stack, dw'[d].stack, g, Activation(i))
              /\ TurnsTo(Top(d), g, i)
  <2>1. PICK g \in Frame : \E i \in Item :
              /\ Pushed(dw[d].stack, dw'[d].stack, g, Activation(i))
              /\ TurnsTo(f, g, i)
    BY <1>f, <1>5
  <2>2. PICK i \in Item : Pushed(dw[d].stack, dw'[d].stack, g, Activation(i)) /\ TurnsTo(f, g, i)
    BY <2>1
  <2>3. /\ Len(dw'[d].stack) = k + 1 /\ dw'[d].stack[k] = g
        /\ dw'[d].stack[k + 1] = Activation(i)
        /\ \A n \in 1..(k - 1) : dw'[d].stack[n] = s[n]
    BY <1>f, <1>s, <2>2 DEF Pushed
  <2>4. FrameIsPlaced(g, k)'
    <3>1. g.item = f.item /\ g.stage = f.stage /\ g.todo \subseteq f.todo
      BY <2>2 DEF TurnsTo
    <3> QED BY <1>f, <3>1 DEF FrameIsPlaced, IsImage, Level, Stages
  <2>5. FrameIsPlaced(Activation(i), k + 1)'
    <3>1. Parent[i] = f.item /\ k <= Level(f.item)
      BY <1>f, <2>2 DEF FrameIsPlaced, TurnsTo
    <3>2. Parent[i] # None
      BY <1>i, <3>1, TreeAssumption
    <3>3. Level(i) = Level(f.item) + 1 /\ Level(f.item) \in 1..5
      BY <1>i, <3>1, <3>2, LevelFacts
    <3>4. k + 1 <= Level(i) /\ k + 1 \in Nat
      BY <1>f, <3>1, <3>3
    <3> QED BY <3>4, ActivationIsPlaced
  <2>6. \A n \in 1..(k + 1) : n = k + 1 \/ n = k \/ n \in 1..(k - 1)
    BY <1>f
  <2>7. \A n \in 1..(k - 1) : n \in 1..k
    BY <1>f
  <2> QED BY <1>b, <2>3, <2>4, <2>5, <2>6, <2>7 DEF FramesArePlaced
<1> QED BY <1>3, <1>4, <1>5

\* A cascade that takes no step stays where it is.
LEMMA OthersStayPlaced ==
  ASSUME TypeOK, NEW d \in DeleteWorker, FramesArePlaced(d), dw'[d] = dw[d],
         legacy' \subseteq legacy
  PROVE  FramesArePlaced(d)'
<1>1. PICK s \in Seq(Frame) : s = dw[d].stack
  BY DEF TypeOK, DeleteLocal
<1> SUFFICES ASSUME NEW n \in 1..Len(s) PROVE FrameIsPlaced(s[n], n)'
  BY <1>1 DEF FramesArePlaced
<1>2. FrameIsPlaced(s[n], n)
  BY <1>1 DEF FramesArePlaced
<1> QED BY <1>2, PlaceIsKept

LEMMA PlacedInit == Init => WorkIsPlaced
<1> SUFFICES ASSUME Init PROVE WorkIsPlaced
  OBVIOUS
<1>1. \A d \in DeleteWorker : Len(dw[d].stack) = 0
  BY DEF Init, IdleDelete
<1>2. \A w \in CreateWorker : cw[w].pc = "idle"
  BY DEF Init, IdleCreate
<1> QED BY <1>1, <1>2 DEF WorkIsPlaced

ParentsWereThere ==
    \A w \in CreateWorker : cw[w].pc \in {"put", "create"} => Parent[cw[w].item] \in born \cup {None}

LEMMA CreateKeepsParents ==
  ASSUME Known, ParentsWereThere, NEW w \in CreateWorker, CreateNext(w)
  PROVE  ParentsWereThere'
<1>1. cw \in [CreateWorker -> CreateLocal] /\ table \cup bare \subseteq born
  BY DEF Known, TypeOK
<1>2. born \subseteq born' /\ \A v \in CreateWorker \ {w} : cw'[v] = cw[v]
  BY <1>1, ZenonT(60) DEF CreateNext, ReceiveCreate, CheckParent, PutObject, CreateRecord,
                          CreateFails, AnswerCreate
<1>l. PICK l \in CreateLocal : l = cw[w]
  BY <1>1
<1> SUFFICES cw'[w].pc \in {"put", "create"} => Parent[cw'[w].item] \in born \cup {None}
  BY <1>2 DEF ParentsWereThere
<1>i. IdleCreate.pc = "idle"
  BY DEF IdleCreate
<1>a. CASE cw' = AnswerCreate(w)
  BY <1>1, <1>a, <1>i DEF AnswerCreate
<1>p. ASSUME NEW p, cw' = [cw EXCEPT ![w].pc = p] PROVE cw'[w].item = l.item
  <2>1. PICK m : m = [l EXCEPT !.pc = p]
    OBVIOUS
  <2>2. m.item = l.item
    BY <2>1 DEF CreateLocal
  <2>3. cw'[w] = m
    BY <1>1, <1>l, <1>p, <2>1
  <2> QED BY <2>2, <2>3
<1>3. CASE ReceiveCreate(w)
  <2>1. PICK i \in Item, p \in {"create", "check"} :
          /\ cw' = [cw EXCEPT ![w] = [IdleCreate EXCEPT !.pc = p, !.item = i]]
          /\ p = "create" => Parent[i] = None
    BY <1>3 DEF ReceiveCreate
  <2>2. PICK m : m = [IdleCreate EXCEPT !.pc = p, !.item = i]
    OBVIOUS
  <2>3. m.pc = p /\ m.item = i /\ cw'[w] = m
    BY <1>1, <2>1, <2>2 DEF IdleCreate
  <2> QED BY <2>1, <2>3
<1>4. CASE CheckParent(w)
  <2>1. CASE Found(Parent[l.item])
    <3>1. Parent[l.item] \in born
      BY <1>1, <2>1 DEF Found
    <3>2. \E p : cw' = [cw EXCEPT ![w].pc = p]
      BY <1>l, <1>4, <2>1 DEF CheckParent
    <3> QED BY <1>p, <3>1, <3>2
  <2> QED BY <1>l, <1>4, <1>a, <2>1 DEF CheckParent
<1>5. CASE PutObject(w)
  <2>1. Parent[l.item] \in born \cup {None}
    BY <1>l, <1>5 DEF PutObject, ParentsWereThere
  <2> QED BY <1>5, <1>a, <1>p, <2>1 DEF PutObject
<1>6. CASE CreateRecord(w)
  <2>1. cw' = AnswerCreate(w) \/ cw' = cw
    BY <1>6 DEF CreateRecord
  <2> QED BY <1>a, <2>1 DEF ParentsWereThere
<1>7. CASE CreateFails(w)
  BY <1>7, <1>a DEF CreateFails
<1> QED BY <1>3, <1>4, <1>5, <1>6, <1>7 DEF CreateNext

LEMMA PlacedStep == Known /\ WorkIsPlaced /\ [Next]_vars => WorkIsPlaced'
<1> SUFFICES ASSUME Known, WorkIsPlaced, [Next]_vars PROVE WorkIsPlaced'
  OBVIOUS
<1> USE DEF Known
<1>1. (\A d \in DeleteWorker : FramesArePlaced(d)) /\ ParentsWereThere
  BY DEF WorkIsPlaced, FramesArePlaced, ParentsWereThere
<1>g. ASSUME UNCHANGED dw, legacy' \subseteq legacy, ParentsWereThere' PROVE WorkIsPlaced'
  <2>1. \A d \in DeleteWorker : FramesArePlaced(d)'
    BY <1>1, <1>g, OthersStayPlaced
  <2> QED BY <1>g, <2>1 DEF WorkIsPlaced, FramesArePlaced, ParentsWereThere
<1>2. ASSUME NEW w \in CreateWorker, CreateNext(w) PROVE WorkIsPlaced'
  <2>1. UNCHANGED <<dw, legacy>>
    BY <1>2 DEF CreateNext, ReceiveCreate, CheckParent, PutObject, CreateRecord, CreateFails
  <2> QED BY <1>g, <1>1, <1>2, <2>1, CreateKeepsParents
<1>3. ASSUME NEW d \in DeleteWorker, DeleteNext(d) PROVE WorkIsPlaced'
  <2>1. /\ \A c \in DeleteWorker \ {d} : dw'[c] = dw[c]
        /\ legacy' \subseteq legacy /\ UNCHANGED <<born, cw>>
    BY <1>3, CascadeSteps DEF OnlyCascade
  <2>2. FramesArePlaced(d)'
    BY <1>1, <1>3, <2>1, CascadeStaysPlaced
  <2>3. \A c \in DeleteWorker \ {d} : FramesArePlaced(c)'
    BY <1>1, <2>1, OthersStayPlaced
  <2>4. \A c \in DeleteWorker : FramesArePlaced(c)'
    BY <2>2, <2>3
  <2>5. ParentsWereThere'
    BY <1>1, <2>1 DEF ParentsWereThere
  <2> QED BY <2>4, <2>5 DEF WorkIsPlaced, FramesArePlaced, ParentsWereThere
<1>4. ASSUME NEW m \in Migrator, MigrateNext(m) PROVE WorkIsPlaced'
  <2>1. UNCHANGED <<born, cw, dw>>
    BY <1>4, MigrateSteps
  <2>2. \E g \in MigrateLocal : MigrationMoves(mw[m], g)
    BY <1>4, MigrateSteps
  <2>3. legacy' \subseteq legacy
    BY <2>2 DEF MigrationMoves, ScanBegins, PageComes, EntryBegins, ObjectIsCopied, EntryEnds,
                RunEnds
  <2>4. ParentsWereThere'
    BY <1>1, <2>1 DEF ParentsWereThere
  <2> QED BY <1>g, <2>1, <2>3, <2>4
<1>5. ASSUME NEW b \in Backfiller, BackfillNext(b) PROVE WorkIsPlaced'
  <2>1. UNCHANGED <<legacy, born, cw, dw>>
    BY <1>5, BackfillSteps
  <2>4. ParentsWereThere'
    BY <1>1, <2>1 DEF ParentsWereThere
  <2> QED BY <1>g, <2>1, <2>4
<1>6. CASE Propagate \/ UNCHANGED vars
  <2>1. UNCHANGED <<legacy, born, cw, dw>>
    BY <1>6 DEF Propagate, vars
  <2>4. ParentsWereThere'
    BY <1>1, <2>1 DEF ParentsWereThere
  <2> QED BY <1>g, <2>1, <2>4
<1> QED BY <1>2, <1>3, <1>4, <1>5, <1>6 DEF Next

LEMMA PlacedMeansGoingOn ==
  ASSUME Known, WorkIsPlaced, NEW d \in DeleteWorker, Running(d)
  PROVE  CanGoOn(d) /\ Len(dw[d].stack) <= 5
<1>1. FramesArePlaced(d)
  BY DEF WorkIsPlaced, FramesArePlaced
<1>f. PICK f \in Frame, k \in Nat \ {0} :
        f = Top(d) /\ k = Len(dw[d].stack) /\ FrameIsPlaced(f, k)
  BY <1>1, TopIsPlaced DEF Known
<1>2. /\ f.item \in Item /\ f.stage \in 0..2
      /\ Level(f.item) \in 1..5 /\ k <= Level(f.item)
      /\ Stages(f.item) \in 0..2
      /\ ~IsImage(f.item) => f.stage <= Stages(f.item)
  BY <1>f, LevelFacts, KindFacts DEF Frame, FrameIsPlaced
<1>3. k <= 5
  BY <1>2
<1>4. \/ f.todo # {}
      \/ f.stage < Stages(f.item)
      \/ f.todo = {} /\ f.stage = (IF IsImage(f.item) THEN 1 ELSE Stages(f.item))
      \/ IsImage(f.item) /\ f.stage \in {0, 2}
  BY <1>2
<1> QED BY <1>f, <1>3, <1>4 DEF CanGoOn, ReadyToRemove

LEMMA StepsAdvance ==
  ASSUME Known, NEW d \in DeleteWorker, DeleteNext(d), Running(d)
  PROVE  StackAdvances(dw[d].stack, dw'[d].stack)
<1>1. Cascades
  BY DEF Known, TypeOK, Cascades
<1>s. PICK s \in Seq(Frame), k \in Nat \ {0}, f \in Frame :
        s = dw[d].stack /\ k = Len(s) /\ f = s[k] /\ f = Top(d)
  BY <1>1, RunningStack
<1>t. PICK t : t = dw'[d].stack
  OBVIOUS
<1> SUFFICES StackAdvances(s, t)
  BY <1>s, <1>t
<1>2. CASE t = << >>
  <2>1. 1 \in 1..Len(s) /\ Len(t) = 0 /\ 1..(1 - 1) = {}
    BY <1>s, <1>2
  <2> QED BY <2>1 DEF StackAdvances
<1>3. CASE Popped(s, t)
  <2>1. k \in 1..Len(s) /\ Len(t) = k - 1 /\ \A n \in 1..(k - 1) : t[n] = s[n]
    BY <1>s, <1>3 DEF Popped
  <2> QED BY <2>1 DEF StackAdvances
<1>4. ASSUME NEW g, Advances(f, g), Len(t) \in {k, k + 1}, t[k] = g,
             \A n \in 1..(k - 1) : t[n] = s[n]
      PROVE  StackAdvances(s, t)
  <2>1. k \in 1..Len(s) /\ Len(t) >= k - 1 /\ Advances(s[k], t[k])
    BY <1>s, <1>4
  <2> QED BY <1>4, <2>1 DEF StackAdvances
<1>5. CASE \E g \in Frame : Retopped(s, t, g) /\ GoesOn(f, g)
  <2>1. PICK g \in Frame : Retopped(s, t, g) /\ GoesOn(f, g)
    BY <1>5
  <2>2. g.item = f.item /\ g.stage > f.stage
    BY <2>1 DEF GoesOn, Listed, NextStage, Frame
  <2>3. Advances(f, g)
    BY <2>2 DEF Advances
  <2>4. Len(t) = k /\ t[k] = g /\ \A n \in 1..(k - 1) : t[n] = s[n]
    BY <1>s, <2>1 DEF Retopped
  <2> QED BY <1>4, <2>3, <2>4
<1>6. CASE \E g \in Frame : \E i \in Item : Pushed(s, t, g, Activation(i)) /\ TurnsTo(f, g, i)
  <2>1. PICK g \in Frame : \E i \in Item : Pushed(s, t, g, Activation(i)) /\ TurnsTo(f, g, i)
    BY <1>6
  <2>2. PICK i \in Item : Pushed(s, t, g, Activation(i)) /\ TurnsTo(f, g, i)
    BY <2>1
  <2>3. Advances(f, g)
    BY <2>2 DEF Advances, TurnsTo
  <2>4. Len(t) = k + 1 /\ t[k] = g /\ \A n \in 1..(k - 1) : t[n] = s[n]
    BY <1>s, <2>2 DEF Pushed
  <2> QED BY <1>4, <2>3, <2>4
<1> QED BY <1>s, <1>t, <1>2, <1>3, <1>5, <1>6, CascadeMoves DEF Known

\* The safety half of a cascade's termination, for any tree and any number of
\* cascades, creates, backfills and migrations beside it: it always has a step
\* to take, and each step brings it nearer to its end.
THEOREM CascadesComeToAnEnd == Spec => CascadesAdvance
<1>1. Known /\ WorkIsPlaced =>
        \A d \in DeleteWorker : Running(d) => CanGoOn(d) /\ Len(dw[d].stack) <= 5
  BY PlacedMeansGoingOn
<1>2. Known /\ [Next]_vars =>
        [\A d \in DeleteWorker :
            Running(d) /\ dw'[d] # dw[d] => StackAdvances(dw[d].stack, dw'[d].stack)]_vars
  <2> SUFFICES ASSUME Known, [Next]_vars, NEW d \in DeleteWorker, Running(d), dw'[d] # dw[d]
               PROVE  StackAdvances(dw[d].stack, dw'[d].stack)
    OBVIOUS
  <2>1. ASSUME NEW c \in DeleteWorker, DeleteNext(c) PROVE DeleteNext(d)
    <3>1. c = d
      BY <2>1, CascadeSteps DEF Known, OnlyCascade
    <3> QED BY <2>1, <3>1
  <2>2. CASE \E w \in CreateWorker : CreateNext(w)
    BY <2>2 DEF CreateNext, ReceiveCreate, CheckParent, PutObject, CreateRecord, CreateFails
  <2>3. CASE \E m \in Migrator : MigrateNext(m)
    BY <2>3, MigrateSteps DEF Known
  <2>4. CASE \E b \in Backfiller : BackfillNext(b)
    BY <2>4, BackfillSteps DEF Known
  <2>5. CASE Propagate \/ UNCHANGED vars
    BY <2>5 DEF Propagate, vars
  <2> QED BY <2>1, <2>2, <2>3, <2>4, <2>5, StepsAdvance DEF Next
<1> QED BY <1>1, <1>2, KnownInit, KnownStep, PlacedInit, PlacedStep, PTL DEF Spec, CascadesAdvance

----------------------------------------------------------------------------
(* The lives of the records *)

Shown == {i \in table \ legacy : IsImage(i) => i \in objects}

\* What is shown is what has a key, as every image with a key has its object;
\* and the same after a step.
LEMMA ShownIsKeyed ==
  Sound => Shown = table \ legacy
  BY DEF Sound, LibraryInductive, RecordHasObject, Shown

LEMMA ShownNext ==
  ASSUME Sound' PROVE Shown' = table' \ legacy'
<1>1. RecordHasObject'
  BY DEF Sound, LibraryInductive
<1> QED BY <1>1 DEF RecordHasObject, Shown, IsImage

LEMMA LivesBegin == Init => Life!LifeInit
<1> SUFFICES ASSUME Init PROVE Life!LifeInit
  OBVIOUS
<1>1. /\ table \subseteq Item /\ born = table
      /\ \A i \in table : Parent[i] # None => Parent[i] \in table
      /\ legacy \subseteq Legacy
  BY DEF Init
<1>2. Shown = table \ legacy
  BY SoundInit, ShownIsKeyed
<1> QED BY <1>1, <1>2 DEF Life!LifeInit, Shown

\* A create that stores its record makes it appear.
LEMMA CreateAppears ==
  ASSUME Undisturbed, Sound, Sound', WorkIsPlaced, NEW w \in CreateWorker, CreateNext(w)
  PROVE  [Life!LifeNext]_(Life!lives)
<1> USE DEF Sound
<1>s. Shown = table \ legacy /\ Shown' = table' \ legacy'
  BY ShownIsKeyed, ShownNext
<1>1. CASE CreateRecord(w)
  <2>1. PICK i : i = cw[w].item
    OBVIOUS
  <2>2. table' = table \cup {i} /\ born' = born \cup {i} /\ legacy' = legacy
    BY <1>1, <2>1 DEF CreateRecord
  <2>3. i \in Item \ Legacy /\ i \notin born
    BY <1>1, <2>1 DEF CreateRecord, LibraryInductive, CreateIsNew, Known, WorkIsKnown, TypeOK
  <2>4. Parent[i] # None => Parent[i] \in born
    BY <1>1, <2>1 DEF CreateRecord, WorkIsPlaced
  <2>5. Shown' = Shown \cup {i}
    BY <1>s, <2>2, <2>3 DEF Known, TypeOK
  <2>6. Life!Appear(i)
    BY <2>2, <2>3, <2>4, <2>5 DEF Life!Appear, Shown
  <2> QED BY <2>3, <2>6 DEF Life!LifeNext
<1>2. CASE ~CreateRecord(w)
  <2>1. UNCHANGED <<table, born, legacy>>
    BY <1>2 DEF CreateNext, ReceiveCreate, CheckParent, PutObject, CreateFails
  <2> QED BY <1>s, <2>1 DEF Life!lives, Shown
<1> QED BY <1>1, <1>2

\* A cascade makes records go, children first in a sealed library.
LEMMA CascadeGoes ==
  ASSUME Sound, Sound', WorkIsPlaced, NEW d \in DeleteWorker, DeleteNext(d)
  PROVE  [Life!LifeNext]_(Life!lives)
<1> USE DEF Sound
<1>s. Shown = table \ legacy /\ Shown' = table' \ legacy'
  BY ShownIsKeyed, ShownNext
<1>b. born' = born
  BY CascadeSteps DEF Known
<1>1. CASE UNCHANGED <<table, legacy>>
  BY <1>s, <1>b, <1>1 DEF Life!lives, Shown
<1>2. CASE ~UNCHANGED <<table, legacy>>
  <2>1. RemoveRecord(d)
    BY <1>2 DEF DeleteNext, DeleteStep, ReceiveDelete, ListChildren, DeleteChild, GetImage,
                DeleteObject, DeleteFails, EndDelete
  <2>f. PICK f \in Frame : f = Top(d) /\ \E n \in Nat : FrameIsPlaced(f, n)
    <3>1. FramesArePlaced(d) /\ Running(d)
      BY <2>1 DEF RemoveRecord, WorkIsPlaced, FramesArePlaced
    <3> QED BY <3>1, TopIsPlaced DEF Known
  <2>2. /\ ReadyToRemove(f) /\ Found(f.item)
        /\ table' = table \ {f.item} /\ legacy' = legacy \ {f.item}
    BY <1>2, <2>1, <2>f, Zenon DEF RemoveRecord
  <2>3. f.item \in table /\ f.item \in Item
    BY <1>2, <2>2 DEF Frame, Known, TypeOK
  <2>4. f.item \notin legacy
    <3>1. CASE IsImage(f.item)
      <4>1. f.stage > 0
        BY <2>2, <3>1 DEF ReadyToRemove
      <4> QED BY <2>f, <3>1, <4>1 DEF FrameIsPlaced
    <3>2. CASE ~IsImage(f.item)
      BY <3>2, TreeAssumption DEF Known, TypeOK
    <3> QED BY <3>1, <3>2
  <2>5. Untyped = {} /\ CreateWorker = {} => \A j \in table : Parent[j] # f.item
    <3> SUFFICES ASSUME Untyped = {}, CreateWorker = {}, NEW j \in table, Parent[j] = f.item
                 PROVE  FALSE
      OBVIOUS
    <3>1. NoOrphans' /\ j \in Item
      BY DEF LibraryInductive, Known, TypeOK
    <3>2. Parent[j] # None /\ j # f.item
      <4>1. Parent[j] # None
        BY <2>3, TreeAssumption
      <4>2. Level(j) = Level(f.item) + 1 /\ Level(f.item) \in 1..5
        BY <2>3, <3>1, <4>1, LevelFacts
      <4> QED BY <4>1, <4>2
    <3>3. j \in table' /\ Parent[j] \notin table'
      BY <2>2, <3>2
    <3> QED BY <3>1, <3>2, <3>3 DEF NoOrphans
  <2>6. Shown' = Shown \ {f.item} /\ f.item \in Shown
    BY <1>s, <2>2, <2>3, <2>4
  <2>7. Life!Go(f.item)
    BY <1>b, <2>2, <2>5, <2>6 DEF Life!Go, Shown
  <2> QED BY <2>3, <2>7 DEF Life!LifeNext
<1> QED BY <1>1, <1>2

\* A migration gives an image its key, and a backfill changes no life.
LEMMA CommandsGiveKeys ==
  ASSUME Sound, Sound', UNCHANGED <<table, born>>,
         legacy' = legacy \/ \E i : legacy' = legacy \ {i}
  PROVE  [Life!LifeNext]_(Life!lives)
<1> USE DEF Sound
<1>s. Shown = table \ legacy /\ Shown' = table' \ legacy'
  BY ShownIsKeyed, ShownNext
<1>1. CASE legacy' = legacy
  BY <1>s, <1>1 DEF Life!lives, Shown
<1>2. CASE legacy' # legacy
  <2>1. PICK i : legacy' = legacy \ {i}
    BY <1>2
  <2>2. i \in legacy /\ i \in table /\ i \in Item
    BY <1>2, <2>1 DEF Known, TypeOK
  <2>3. i \in table \ Shown /\ Shown' = Shown \cup {i}
    BY <1>s, <2>1, <2>2
  <2>4. Life!GetKey(i)
    BY <2>3 DEF Life!GetKey, Shown
  <2> QED BY <2>2, <2>4 DEF Life!LifeNext
<1> QED BY <1>1, <1>2

LEMMA LivesGoOn ==
  ASSUME Undisturbed, Sound, Sound', WorkIsPlaced, [Next]_vars
  PROVE  [Life!LifeNext]_(Life!lives)
<1> USE DEF Sound
<1>1. ASSUME NEW m \in Migrator, MigrateNext(m) PROVE [Life!LifeNext]_(Life!lives)
  <2>1. UNCHANGED <<table, born>> /\ \E g \in MigrateLocal : MigrationMoves(mw[m], g)
    BY <1>1, MigrateSteps DEF Known
  <2>2. legacy' = legacy \/ \E i : legacy' = legacy \ {i}
    BY <2>1 DEF MigrationMoves, ScanBegins, PageComes, EntryBegins, ObjectIsCopied, EntryEnds,
                RunEnds
  <2> QED BY <2>1, <2>2, CommandsGiveKeys
<1>2. ASSUME NEW b \in Backfiller, BackfillNext(b) PROVE [Life!LifeNext]_(Life!lives)
  <2>1. UNCHANGED <<table, legacy, born>>
    BY <1>2, BackfillSteps DEF Known
  <2> QED BY <2>1, CommandsGiveKeys
<1>3. CASE Propagate \/ UNCHANGED vars
  <2>1. UNCHANGED <<table, legacy, born>>
    BY <1>3 DEF Propagate, vars
  <2> QED BY <2>1, CommandsGiveKeys
<1> QED BY <1>1, <1>2, <1>3, CreateAppears, CascadeGoes DEF Next

\* What the table, its indexes and the bucket hold of each record is a life as
\* RecordLife tells it: no crash, retry or interleaving of requests, migrations
\* and backfills shows, while no create is sent twice. The bare ids that backfills
\* may leave have no life.
THEOREM LibraryImplementsLives ==
  ASSUME Undisturbed
  PROVE  Spec => ImplementsRecordLife
<1>1. Sound /\ [Next]_vars => Sound'
  BY SoundStep
<1>2. Sound /\ WorkIsPlaced /\ [Next]_vars => WorkIsPlaced'
  BY PlacedStep DEF Sound
<1>3. Sound /\ Sound' /\ WorkIsPlaced /\ [Next]_vars => [Life!LifeNext]_(Life!lives)
  BY LivesGoOn
<1> QED BY <1>1, <1>2, <1>3, LivesBegin, SoundInit, PlacedInit, PTL
        DEF Spec, ImplementsRecordLife, Life!LifeSpec

=============================================================================
