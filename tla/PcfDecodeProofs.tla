-------------------------- MODULE PcfDecodeProofs --------------------------
(***************************************************************************)
(* Proofs about PcfDecode: for messages with any lengths, any counts and   *)
(* any nesting of groups, the loops stay inside their messages and move on *)
(* at every turn; and for every row of items, every damage and every name  *)
(* in a command, what they read is what was sent.                          *)
(***************************************************************************)
EXTENDS PcfDecode, SequenceTheorems, FiniteSetTheorems, WellFoundedInduction, TLAPS

\* A group is read by a loop that knows where it ends, inside the message.
IInv ==
    /\ input \in Inputs
    /\ TypeOK
    /\ IsSequence(frames) /\ IsSequence(decoded)
    /\ frames # <<>> => k <= LastMessage
    /\ WalkInBounds

-----------------------------------------------------------------------------
(* Stacks.                                                                 *)

\* A sequence over any set is one over its own elements.
LEMMA OverItself == ASSUME NEW S, NEW s \in Seq(S) PROVE IsSequence(s)
  <1>1. s \in [1 .. Len(s) -> S] /\ Len(s) \in Nat
    OBVIOUS
  <1>2. s \in [1 .. Len(s) -> {s[i] : i \in DOMAIN s}]
    BY <1>1
  <1>. QED  BY <1>1, <1>2 DEF IsSequence

\* What pushing an element on a stack gives.
LEMMA PushProperties ==
    ASSUME NEW s, IsSequence(s), NEW f
    PROVE  LET t == <<f>> \o s
           IN  /\ IsSequence(t) /\ Len(t) = Len(s) + 1
               /\ t[1] = f
               /\ \A i \in 1 .. Len(s) : t[i + 1] = s[i]
               /\ \A i \in 2 .. Len(t) : t[i] = s[i - 1]
  <1>. DEFINE S == {s[i] : i \in DOMAIN s} \cup {f}
              t == <<f>> \o s
  <1>1. s \in Seq(S) /\ <<f>> \in Seq(S) /\ Len(<<f>>) = 1 /\ <<f>>[1] = f
    BY DEF IsSequence
  <1>2. t \in Seq(S) /\ Len(t) = Len(s) + 1
    BY <1>1, ConcatProperties
  <1>3. IsSequence(t)
    BY <1>2, OverItself
  <1>4. t[1] = f
    BY <1>1
  <1>5. \A i \in 1 .. Len(s) : t[i + 1] = s[i]
    BY <1>1
  <1>6. \A i \in 2 .. Len(t) : t[i] = s[i - 1]
    BY <1>1, <1>2
  <1>. QED  BY <1>2, <1>3, <1>4, <1>5, <1>6

\* What the innermost element and the stack below it are.
LEMMA PopProperties ==
    ASSUME NEW s, IsSequence(s), s # <<>>
    PROVE  /\ Head(s) = s[1] /\ 1 \in DOMAIN s
           /\ IsSequence(Tail(s)) /\ Len(Tail(s)) = Len(s) - 1
           /\ Len(s) \in Nat \ {0}
           /\ \A i \in 1 .. Len(s) - 1 : Tail(s)[i] = s[i + 1]
  <1>. DEFINE S == {s[i] : i \in DOMAIN s}
  <1>1. s \in Seq(S) /\ s # <<>>
    BY DEF IsSequence
  <1>2. Tail(s) \in Seq(S) /\ Len(Tail(s)) = Len(s) - 1
    BY <1>1
  <1>3. IsSequence(Tail(s))
    BY <1>2, OverItself
  <1>. QED  BY <1>1, <1>2, <1>3

\* What popping two elements gives.
LEMMA PopTwice ==
    ASSUME NEW s, IsSequence(s), Len(s) > 1
    PROVE  /\ IsSequence(Tail(Tail(s))) /\ Len(Tail(Tail(s))) = Len(s) - 2
           /\ \A i \in 1 .. Len(s) - 2 : Tail(Tail(s))[i] = s[i + 2]
  <1>1. Len(s) \in Nat
    BY DEF IsSequence
  <1>2. ASSUME NEW r, r = Tail(s)
        PROVE  /\ IsSequence(Tail(r)) /\ Len(Tail(r)) = Len(s) - 2
               /\ \A i \in 1 .. Len(s) - 2 : Tail(r)[i] = s[i + 2]
    <2>1. /\ IsSequence(r) /\ Len(r) = Len(s) - 1
          /\ \A i \in 1 .. Len(s) - 1 : r[i] = s[i + 1]
      <3>1. s # <<>>
        OBVIOUS
      <3>. QED  BY <1>2, <3>1, PopProperties
    <2>2. r # <<>>
      <3>1. Len(r) > 0
        BY <1>1, <2>1
      <3>. QED  BY <3>1
    <2>3. /\ IsSequence(Tail(r)) /\ Len(Tail(r)) = Len(r) - 1
          /\ \A i \in 1 .. Len(r) - 1 : Tail(r)[i] = r[i + 1]
      BY <2>1, <2>2, PopProperties
    <2>4. Len(Tail(r)) = Len(s) - 2
      BY <1>1, <2>1, <2>3
    <2>5. \A i \in 1 .. Len(s) - 2 : Tail(r)[i] = s[i + 2]
      <3>. SUFFICES ASSUME NEW i \in 1 .. Len(s) - 2 PROVE Tail(r)[i] = s[i + 2]
        OBVIOUS
      <3>1. i \in 1 .. Len(r) - 1 /\ i + 1 \in 1 .. Len(s) - 1 /\ (i + 1) + 1 = i + 2
        BY <1>1, <2>1
      <3>. QED  BY <2>1, <2>3, <3>1
    <2>. QED  BY <2>3, <2>4, <2>5
  <1>. QED  BY <1>2

\* What appending gives.
LEMMA AppendKeeps ==
    ASSUME NEW s, IsSequence(s), NEW e
    PROVE  IsSequence(Append(s, e)) /\ Len(Append(s, e)) = Len(s) + 1
  <1>. DEFINE S == {s[i] : i \in DOMAIN s} \cup {e}
  <1>1. s \in Seq(S) /\ e \in S
    BY DEF IsSequence
  <1>2. Append(s, e) \in Seq(S) /\ Len(Append(s, e)) = Len(s) + 1
    BY <1>1
  <1>. QED  BY <1>2, OverItself

-----------------------------------------------------------------------------
(* What the invariant says of the innermost loop.                          *)

\* The lengths and counts that a loop meets are integers.
LEMMA Readings ==
    ASSUME IInv, k <= LastMessage
    PROVE  /\ M.len \in Nat /\ M.count \in Nat
           /\ Here.length \in Int /\ Here.count \in Int
           /\ M.header \in Int /\ M.len < Word
  <1>1. k \in DOMAIN input.msgs /\ AnyMessage(M)
    <2>1. /\ input.msgs \in Seq({input.msgs[j] : j \in DOMAIN input.msgs})
          /\ Len(input.msgs) > 0
          /\ \A j \in DOMAIN input.msgs : AnyMessage(input.msgs[j])
      BY InputsAssumption DEF IInv, IsSequence
    <2>2. k \in 1 .. Len(input.msgs)
      BY <2>1 DEF IInv, TypeOK, LastMessage
    <2>. QED  BY <2>1, <2>2 DEF M
  <1>2. CASE offset \in DOMAIN M.at
    BY <1>1, <1>2 DEF AnyMessage, Here, At
  <1>3. CASE offset \notin DOMAIN M.at
    BY <1>1, <1>3 DEF AnyMessage, Here, At, Structure
  <1>. QED  BY <1>2, <1>3

\* Where the innermost loop stands.
LEMMA Innermost ==
    ASSUME IInv, frames # <<>>
    PROVE  /\ k \in Nat /\ k <= LastMessage
           /\ Head(frames) = frames[1] /\ 1 \in DOMAIN frames
           /\ Head(frames).end \in Nat /\ Head(frames).left \in Nat \cup {Unbounded}
           /\ offset \in Nat
           /\ offset <= Head(frames).end /\ Head(frames).end <= M.len
           /\ M.len \in Nat /\ Here.length \in Int /\ Here.count \in Int
  <1>1. Head(frames) = frames[1] /\ 1 \in DOMAIN frames
    BY PopProperties DEF IInv
  <1>2. k \in Nat /\ k <= LastMessage
    BY DEF IInv, TypeOK, LastMessage
  <1>3. M.len \in Nat /\ Here.length \in Int /\ Here.count \in Int
    BY <1>2, Readings
  <1>4. /\ Head(frames).end \in Nat /\ Head(frames).left \in Nat \cup {Unbounded}
        /\ offset \in Nat
    BY <1>1 DEF IInv, TypeOK
  <1>5. /\ offset <= Head(frames).end
        /\ Head(frames).end <= M.len
    BY <1>1 DEF IInv, WalkInBounds
  <1>. QED  BY <1>1, <1>2, <1>3, <1>4, <1>5

\* A loop that takes a parameter ends where it did.
LEMMA TakenProperties ==
    ASSUME NEW f, NEW p, f.end \in Nat, f.left \in Nat \cup {Unbounded}
    PROVE  /\ Taken(f, p).end = f.end
           /\ Taken(f, p).left \in Nat \cup {Unbounded}
  BY DEF Taken, Frame, Unbounded

-----------------------------------------------------------------------------
(* One fact for each action: the invariant stays, and the walk moves on.   *)

\* What WalkAdvances says of a step.
Advances ==
    k' = k /\ frames # <<>> =>
        \/ offset' > offset
        \/ offset' = offset /\ Len(frames') < Len(frames)

\* Putting one loop for the innermost ones keeps the bounds.
LEMMA Replaced ==
    ASSUME IInv, NEW below, IsSequence(below), NEW f,
           frames # <<>>,
           frames' = <<f>> \o below,
           f.end \in Nat, f.left \in Nat \cup {Unbounded},
           \A i \in 1 .. Len(below) : \E j \in DOMAIN frames : below[i] = frames[j],
           \A i, j \in 1 .. Len(below) : i <= j => below[i].end <= below[j].end,
           \A i \in 1 .. Len(below) : f.end <= below[i].end,
           f.end <= M.len,
           offset' \in Nat, offset' <= f.end,
           UNCHANGED <<input, k, decoded>>
    PROVE  IInv'
  <1>1. /\ IsSequence(frames') /\ Len(frames') = Len(below) + 1 /\ Len(below) \in Nat
        /\ frames'[1] = f
        /\ \A i \in 2 .. Len(frames') : frames'[i] = below[i - 1]
        /\ DOMAIN frames' = 1 .. Len(frames')
    <2>. DEFINE t == <<f>> \o below
    <2>1. /\ IsSequence(t) /\ Len(t) = Len(below) + 1 /\ t[1] = f
          /\ \A i \in 2 .. Len(t) : t[i] = below[i - 1]
      BY PushProperties
    <2>2. DOMAIN t = 1 .. Len(t) /\ Len(below) \in Nat
      BY <2>1 DEF IsSequence
    <2>. QED  BY <2>1, <2>2
  <1>2. \A i \in DOMAIN frames' :
          \/ i = 1 /\ frames'[i] = f
          \/ i - 1 \in 1 .. Len(below) /\ frames'[i] = below[i - 1]
    BY <1>1
  <1>3. \A i \in DOMAIN frames' :
          /\ frames'[i].end \in Nat /\ frames'[i].left \in Nat \cup {Unbounded}
          /\ frames'[i].end <= M.len /\ f.end <= frames'[i].end
    <2>. SUFFICES ASSUME NEW i \in DOMAIN frames'
                  PROVE  /\ frames'[i].end \in Nat
                         /\ frames'[i].left \in Nat \cup {Unbounded}
                         /\ frames'[i].end <= M.len /\ f.end <= frames'[i].end
      OBVIOUS
    <2>1. CASE frames'[i] = f
      BY <2>1
    <2>2. CASE i - 1 \in 1 .. Len(below) /\ frames'[i] = below[i - 1]
      <3>1. PICK j \in DOMAIN frames : below[i - 1] = frames[j]
        BY <2>2
      <3>2. /\ frames[j].end \in Nat /\ frames[j].left \in Nat \cup {Unbounded}
            /\ frames[j].end <= M.len
        BY DEF IInv, TypeOK, WalkInBounds
      <3>. QED  BY <2>2, <3>1, <3>2
    <2>. QED  BY <1>2, <2>1, <2>2
  <1>4. \A i, j \in DOMAIN frames' : i <= j => frames'[i].end <= frames'[j].end
    <2>. SUFFICES ASSUME NEW i \in DOMAIN frames', NEW j \in DOMAIN frames', i <= j
                  PROVE  frames'[i].end <= frames'[j].end
      OBVIOUS
    <2>1. CASE i = 1
      BY <1>1, <1>3, <2>1
    <2>2. CASE i # 1
      <3>1. /\ i - 1 \in 1 .. Len(below) /\ frames'[i] = below[i - 1]
            /\ j - 1 \in 1 .. Len(below) /\ frames'[j] = below[j - 1]
        BY <1>1, <1>2, <2>2
      <3>. QED  BY <1>1, <3>1
    <2>. QED  BY <2>1, <2>2
  <1>5. k' <= LastMessage' /\ M' = M /\ offset \in Nat
    BY Innermost DEF LastMessage, M
  <1>6. TypeOK'
    BY <1>3 DEF IInv, TypeOK, LastMessage
  <1>7. \A i \in DOMAIN frames' : offset' <= frames'[i].end
    <2>1. offset' \in Nat /\ offset' <= f.end /\ f.end \in Nat
      OBVIOUS
    <2>2. \A i \in DOMAIN frames' : frames'[i].end \in Nat /\ f.end <= frames'[i].end
      BY <1>3
    <2>. QED  BY <2>1, <2>2
  <1>8. WalkInBounds'
    <2>1. \A i \in DOMAIN frames' : frames'[i].end <= M'.len
      BY <1>3, <1>5
    <2>. QED  BY <1>4, <1>7, <2>1 DEF WalkInBounds
  <1>. QED  BY <1>1, <1>5, <1>6, <1>8 DEF IInv

\* What the condition of a loop says of the structure it lets through.
LEMMA FitsProperties ==
    ASSUME IInv, Reading
    PROVE  /\ frames # <<>>
           /\ Here.length \in Nat /\ Here.length > 0
           /\ offset + Here.length <= Head(frames).end
           /\ input.reader = "monitor" => Here.length >= 16
  BY Innermost DEF Reading, Fits, LeastLength

\* The loops below the innermost one.
LEMMA Below ==
    ASSUME IInv, frames # <<>>
    PROVE  /\ IsSequence(Tail(frames)) /\ Len(Tail(frames)) = Len(frames) - 1
           /\ \A i \in 1 .. Len(Tail(frames)) :
                /\ i + 1 \in DOMAIN frames /\ Tail(frames)[i] = frames[i + 1]
           /\ \A i, j \in 1 .. Len(Tail(frames)) :
                i <= j => Tail(frames)[i].end <= Tail(frames)[j].end
           /\ \A i \in 1 .. Len(Tail(frames)) : Head(frames).end <= Tail(frames)[i].end
  <1>1. /\ IsSequence(Tail(frames)) /\ Len(Tail(frames)) = Len(frames) - 1
        /\ Len(frames) \in Nat \ {0}
        /\ \A i \in 1 .. Len(frames) - 1 : Tail(frames)[i] = frames[i + 1]
        /\ DOMAIN frames = 1 .. Len(frames)
        /\ Head(frames) = frames[1]
    <2>1. IsSequence(frames)
      BY DEF IInv
    <2>2. DOMAIN frames = 1 .. Len(frames)
      BY <2>1 DEF IsSequence
    <2>. QED  BY <2>1, <2>2, PopProperties
  <1>2. \A i \in 1 .. Len(Tail(frames)) :
          /\ i + 1 \in DOMAIN frames /\ Tail(frames)[i] = frames[i + 1]
    BY <1>1
  <1>3. \A i, j \in DOMAIN frames : i <= j => frames[i].end <= frames[j].end
    BY DEF IInv, WalkInBounds
  <1>4. \A i, j \in 1 .. Len(Tail(frames)) :
          i <= j => Tail(frames)[i].end <= Tail(frames)[j].end
    BY <1>1, <1>2, <1>3
  <1>5. \A i \in 1 .. Len(Tail(frames)) : Head(frames).end <= Tail(frames)[i].end
    BY <1>1, <1>2, <1>3
  <1>. QED  BY <1>1, <1>2, <1>4, <1>5

LEMMA ReadParamStep == ASSUME IInv, ReadParam PROVE IInv' /\ Advances
  <1>. DEFINE f == Taken(Head(frames), Reads(input.reader, Here, Room))
              below == Tail(frames)
  <1>1. /\ Reading
        /\ frames' = <<f>> \o below /\ offset' = offset + Here.length
        /\ UNCHANGED <<input, k, decoded>>
    BY DEF ReadParam
  <1>2. /\ frames # <<>> /\ Here.length \in Nat /\ Here.length > 0
        /\ offset + Here.length <= Head(frames).end
    BY <1>1, FitsProperties
  <1>3. /\ Head(frames).end \in Nat /\ Head(frames).left \in Nat \cup {Unbounded}
        /\ Head(frames).end <= M.len /\ offset \in Nat
    BY <1>2, Innermost
  <1>4. f.end = Head(frames).end /\ f.left \in Nat \cup {Unbounded}
    BY <1>3, TakenProperties
  <1>5. /\ IsSequence(below)
        /\ \A i \in 1 .. Len(below) : \E j \in DOMAIN frames : below[i] = frames[j]
        /\ \A i, j \in 1 .. Len(below) : i <= j => below[i].end <= below[j].end
        /\ \A i \in 1 .. Len(below) : Head(frames).end <= below[i].end
    BY <1>2, Below
  <1>6. offset' \in Nat /\ offset' <= f.end /\ offset' > offset
    BY <1>1, <1>2, <1>3, <1>4
  <1>7. IInv'
    <2>. HIDE DEF f, below
    <2>1. f.end \in Nat /\ f.end <= M.len /\ \A i \in 1 .. Len(below) : f.end <= below[i].end
      BY <1>3, <1>4, <1>5
    <2>. QED  BY <1>1, <1>2, <1>4, <1>5, <1>6, <2>1, Replaced
  <1>. QED  BY <1>6, <1>7 DEF Advances

LEMMA SkipQueueStep == ASSUME IInv, SkipQueue PROVE IInv' /\ Advances
  <1>1. /\ Reading /\ offset' = offset + Here.length
        /\ UNCHANGED <<input, k, decoded, frames>>
    BY DEF SkipQueue
  <1>2. /\ frames # <<>> /\ Here.length \in Nat /\ Here.length > 0
        /\ offset + Here.length <= Head(frames).end
        /\ offset \in Nat
        /\ Head(frames).end \in Nat /\ Head(frames) = frames[1] /\ 1 \in DOMAIN frames
    BY <1>1, FitsProperties, Innermost
  <1>3. offset' \in Nat /\ offset' <= frames[1].end /\ offset' > offset
    BY <1>1, <1>2
  <1>4. TypeOK'
    BY <1>1, <1>3 DEF IInv, TypeOK, LastMessage
  <1>5. WalkInBounds'
    <2>1. M' = M
      BY <1>1 DEF M
    <2>2. \A i \in DOMAIN frames : frames[1].end <= frames[i].end /\ frames[i].end \in Nat
      <3>1. DOMAIN frames = 1 .. Len(frames) /\ Len(frames) \in Nat
        BY DEF IInv, IsSequence
      <3>. QED  BY <1>2, <3>1 DEF IInv, TypeOK, WalkInBounds
    <2>3. \A i \in DOMAIN frames' : offset' <= frames'[i].end
      BY <1>1, <1>2, <1>3, <2>2
    <2>. QED  BY <1>1, <2>1, <2>3 DEF IInv, WalkInBounds
  <1>6. IInv'
    BY <1>1, <1>4, <1>5 DEF IInv, LastMessage
  <1>. QED  BY <1>3, <1>6 DEF Advances

LEMMA EnterGroupStep == ASSUME IInv, EnterGroup PROVE IInv' /\ Advances
  <1>. DEFINE f == IF input.reader = "parser"
                     THEN Frame(Here.id, offset + Here.length, Unbounded, <<>>)
                     ELSE Frame(Here.id, Head(frames).end,
                                IF Here.count > 0 THEN Here.count ELSE 0, <<>>)
  <1>1. /\ Reading /\ EntersGroup(Here)
        /\ frames' = <<f>> \o frames /\ offset' = offset + 16
        /\ UNCHANGED <<input, k, decoded>>
    BY DEF EnterGroup
  <1>2. /\ frames # <<>> /\ Here.length \in Nat
        /\ offset + Here.length <= Head(frames).end /\ Here.length >= 16
    BY <1>1, FitsProperties DEF EntersGroup
  <1>3. /\ Head(frames).end \in Nat /\ Head(frames) = frames[1] /\ 1 \in DOMAIN frames
        /\ Head(frames).end <= M.len /\ M.len \in Nat
        /\ offset \in Nat /\ Here.count \in Int
    BY <1>2, Innermost
  <1>4. /\ f.end \in Nat /\ f.left \in Nat \cup {Unbounded}
        /\ f.end <= Head(frames).end /\ offset + 16 <= f.end
    BY <1>2, <1>3 DEF Frame, Unbounded
  <1>5. offset' \in Nat /\ offset' <= f.end /\ offset' > offset
    BY <1>1, <1>3, <1>4
  <1>6. /\ IsSequence(frames) /\ DOMAIN frames = 1 .. Len(frames) /\ Len(frames) \in Nat
        /\ \A i, j \in DOMAIN frames : i <= j => frames[i].end <= frames[j].end
        /\ \A i \in DOMAIN frames : frames[i].end \in Nat
    BY DEF IInv, IsSequence, TypeOK, WalkInBounds
  <1>7. \A i \in 1 .. Len(frames) : f.end <= frames[i].end
    <2>. HIDE DEF f
    <2>1. \A i \in 1 .. Len(frames) : frames[1].end <= frames[i].end
      BY <1>3, <1>6
    <2>. QED  BY <1>3, <1>4, <1>6, <2>1
  <1>8. IInv'
    <2>. HIDE DEF f
    <2>1. f.end <= M.len
      BY <1>3, <1>4
    <2>2. \A i \in 1 .. Len(frames) : \E j \in DOMAIN frames : frames[i] = frames[j]
      BY <1>6
    <2>. QED  BY <1>1, <1>2, <1>4, <1>5, <1>6, <1>7, <2>1, <2>2, Replaced
  <1>. QED  BY <1>5, <1>8 DEF Advances

LEMMA LeaveGroupStep == ASSUME IInv, LeaveGroup PROVE IInv' /\ Advances
  <1>. DEFINE group == Head(frames)
              p     == Param(MQCFT_GROUP, group.id, <<>>, group.params)
              f     == Taken(frames[2], p)
              below == Tail(Tail(frames))
  <1>1. /\ Len(frames) > 1
        /\ frames' = <<f>> \o below
        /\ offset' = IF input.reader = "parser" THEN group.end ELSE offset
        /\ UNCHANGED <<input, k, decoded>>
    BY DEF LeaveGroup
  <1>2. /\ IsSequence(frames) /\ frames # <<>> /\ Len(frames) \in Nat
        /\ DOMAIN frames = 1 .. Len(frames)
    BY <1>1 DEF IInv, IsSequence
  <1>3. /\ group.end \in Nat /\ group = frames[1]
        /\ offset \in Nat /\ offset <= group.end
    BY <1>2, Innermost
  <1>4. /\ frames[2].end \in Nat /\ frames[2].left \in Nat \cup {Unbounded}
        /\ frames[2].end <= M.len /\ group.end <= frames[2].end
    <2>. HIDE DEF group
    <2>1. 1 \in DOMAIN frames /\ 2 \in DOMAIN frames
      BY <1>1, <1>2
    <2>2. frames[2].end \in Nat /\ frames[2].left \in Nat \cup {Unbounded}
      BY <2>1 DEF IInv, TypeOK
    <2>3. frames[2].end <= M.len /\ frames[1].end <= frames[2].end
      BY <2>1 DEF IInv, WalkInBounds
    <2>. QED  BY <1>3, <2>2, <2>3
  <1>5. f.end = frames[2].end /\ f.left \in Nat \cup {Unbounded}
    BY <1>4, TakenProperties
  <1>6. /\ IsSequence(below) /\ Len(below) = Len(frames) - 2
        /\ \A i \in 1 .. Len(below) : below[i] = frames[i + 2]
    BY <1>1, <1>2, PopTwice
  <1>7. \A i \in 1 .. Len(below) : i + 2 \in DOMAIN frames /\ below[i] = frames[i + 2]
    BY <1>2, <1>6
  <1>8. \A i, j \in DOMAIN frames : i <= j => frames[i].end <= frames[j].end
    BY DEF IInv, WalkInBounds
  <1>9. /\ \A i, j \in 1 .. Len(below) : i <= j => below[i].end <= below[j].end
        /\ \A i \in 1 .. Len(below) : frames[2].end <= below[i].end
        /\ \A i \in 1 .. Len(below) : \E j \in DOMAIN frames : below[i] = frames[j]
    <2>. HIDE DEF below
    <2>1. 2 \in DOMAIN frames /\ Len(below) \in Nat
      BY <1>1, <1>2, <1>6
    <2>2. ASSUME NEW i \in 1 .. Len(below), NEW j \in 1 .. Len(below), i <= j
          PROVE  below[i].end <= below[j].end
      BY <1>7, <1>8, <2>1, <2>2
    <2>3. ASSUME NEW i \in 1 .. Len(below)
          PROVE  frames[2].end <= below[i].end /\ \E j \in DOMAIN frames : below[i] = frames[j]
      BY <1>7, <1>8, <2>1
    <2>. QED  BY <2>2, <2>3
  <1>10. /\ offset' \in Nat /\ offset' <= f.end
         /\ offset' >= offset
    <2>. HIDE DEF f, group
    <2>. QED  BY <1>1, <1>3, <1>4, <1>5
  <1>11. IInv'
    <2>. HIDE DEF f, below, group
    <2>1. /\ f.end \in Nat /\ f.end <= M.len
          /\ \A i \in 1 .. Len(below) : f.end <= below[i].end
          /\ IsSequence(below)
          /\ f.left \in Nat \cup {Unbounded}
      BY <1>4, <1>5, <1>6, <1>9
    <2>2. /\ frames' = <<f>> \o below /\ UNCHANGED <<input, k, decoded>>
          /\ frames # <<>>
      BY <1>1, <1>2
    <2>3. offset' \in Nat /\ offset' <= f.end
      BY <1>10
    <2>. QED  BY <1>9, <2>1, <2>2, <2>3, Replaced
  <1>12. Len(frames') < Len(frames)
    <2>. HIDE DEF f, below
    <2>1. Len(<<f>> \o below) = Len(below) + 1
      BY <1>6, PushProperties
    <2>. QED  BY <1>1, <1>2, <1>6, <2>1
  <1>. QED  BY <1>3, <1>10, <1>11, <1>12 DEF Advances

LEMMA StartMessageStep == ASSUME IInv, StartMessage PROVE IInv' /\ Advances
  <1>. DEFINE f == Frame(0, M.len, IF input.reader = "server" THEN M.count ELSE Unbounded, <<>>)
  <1>1. /\ ~Done /\ frames = <<>> /\ Readable(M)
        /\ offset' = FirstOffset /\ frames' = <<f>>
        /\ UNCHANGED <<input, k, decoded>>
    BY DEF StartMessage
  <1>2. LastMessage \in Nat /\ k \in Nat /\ k <= LastMessage
    <2>1. Len(input.msgs) \in Nat
      BY InputsAssumption DEF IInv, IsSequence
    <2>. QED  BY <1>1, <2>1 DEF IInv, TypeOK, LastMessage, Done
  <1>3. M.len \in Nat /\ M.count \in Nat /\ offset' \in Nat /\ offset' <= M.len
    BY <1>1, <1>2, Readings DEF Readable, FirstOffset, HeaderSize
  <1>4. f.end = M.len /\ f.left \in Nat \cup {Unbounded}
    BY <1>3 DEF Frame
  <1>5. /\ Len(frames') = 1 /\ DOMAIN frames' = {1} /\ frames'[1] = f
        /\ IsSequence(frames')
    <2>. HIDE DEF f
    <2>1. <<f>> \in Seq({f})
      OBVIOUS
    <2>2. Len(<<f>>) = 1 /\ DOMAIN <<f>> = {1} /\ <<f>>[1] = f
      OBVIOUS
    <2>3. IsSequence(<<f>>)
      BY <2>1, OverItself
    <2>. QED  BY <1>1, <2>2, <2>3
  <1>6. TypeOK'
    <2>. HIDE DEF f
    <2>. QED  BY <1>1, <1>3, <1>4, <1>5 DEF IInv, TypeOK, LastMessage
  <1>7. WalkInBounds'
    <2>. HIDE DEF f
    <2>1. M' = M
      BY <1>1 DEF M
    <2>. QED  BY <1>1, <1>3, <1>4, <1>5, <2>1 DEF WalkInBounds
  <1>8. k' <= LastMessage'
    BY <1>1, <1>2 DEF LastMessage
  <1>9. IInv'
    <2>. HIDE DEF f
    <2>. QED  BY <1>1, <1>5, <1>6, <1>7, <1>8 DEF IInv
  <1>. QED  BY <1>1, <1>9 DEF Advances

\* A message that is done with, read or not.
LEMMA ReturnsStep ==
    ASSUME IInv, ~Done, NEW params, Returns(params)
    PROVE  IInv' /\ Advances
  <1>1. /\ decoded' = Append(decoded, params) /\ k' = k + 1 /\ frames' = <<>>
        /\ UNCHANGED <<input, offset>>
    BY DEF Returns
  <1>2. IsSequence(decoded') /\ Len(decoded') = Len(decoded) + 1 /\ Len(decoded) = k - 1
    BY <1>1, AppendKeeps DEF IInv, TypeOK
  <1>3. LastMessage \in Nat /\ k \in Nat /\ k <= LastMessage
    <2>1. Len(input.msgs) \in Nat
      BY InputsAssumption DEF IInv, IsSequence
    <2>. QED  BY <2>1 DEF IInv, TypeOK, LastMessage, Done
  <1>4. DOMAIN frames' = {} /\ IsSequence(frames')
    <2>1. <<>> \in Seq({}) /\ DOMAIN <<>> = {}
      OBVIOUS
    <2>2. IsSequence(<<>>)
      BY <2>1, OverItself
    <2>. QED  BY <1>1, <2>1, <2>2
  <1>5. TypeOK'
    BY <1>1, <1>2, <1>3, <1>4 DEF IInv, TypeOK, LastMessage
  <1>6. WalkInBounds'
    BY <1>4 DEF WalkInBounds
  <1>7. IInv'
    BY <1>1, <1>2, <1>4, <1>5, <1>6 DEF IInv
  <1>. QED  BY <1>1, <1>3, <1>7 DEF Advances

LEMMA PassMessageStep == ASSUME IInv, PassMessage PROVE IInv' /\ Advances
  BY ReturnsStep DEF PassMessage

LEMMA EndMessageStep == ASSUME IInv, EndMessage PROVE IInv' /\ Advances
  <1>1. ~Done /\ Returns(Head(frames).params)
    <2>1. frames # <<>> /\ Returns(Head(frames).params)
      BY DEF EndMessage
    <2>2. k \in Nat /\ k <= LastMessage
      BY <2>1, Innermost
    <2>3. LastMessage \in Nat
      <3>1. Len(input.msgs) \in Nat
        BY InputsAssumption DEF IInv, IsSequence
      <3>. QED  BY <3>1 DEF LastMessage
    <2>. QED  BY <2>1, <2>2, <2>3 DEF Done
  <1>. QED  BY <1>1, ReturnsStep

-----------------------------------------------------------------------------
(* What a turn looks at.                                                   *)

\* A remainder that nothing is divided from.
LEMMA SmallRemainder ==
  ASSUME NEW n \in Nat, NEW w \in Nat, n < w
  PROVE  n % w = n
  OBVIOUS

LEMMA SmallUnsigned == ASSUME NEW n \in Nat, n < Word PROVE Unsigned(n) = n
  BY SmallRemainder, WordAssumption DEF Unsigned

LEMMA UnsignedNat == ASSUME NEW n \in Int PROVE Unsigned(n) \in Nat
  BY WordAssumption DEF Unsigned

\* The elements of a list that fit into a structure.
LEMMA ListFits ==
  ASSUME NEW n \in Nat, n >= 16
  PROVE  16 + 4 * ((n - 16) \div 4) <= n
  OBVIOUS

\* The bytes that a reader looks at are no more than there are.
LEMMA ReachBounded ==
  ASSUME NEW reader \in Readers, NEW s, NEW room \in Nat, room < Word,
         s.length \in Nat, s.length <= room, s.count \in Int,
         HeadBytes(reader) <= room,
         reader \in {"reply", "status"} => WithoutWrap(s)
  PROVE  Reach(reader, s, room) <= room
<1>1. CASE ~Takes(reader, s, room)
  BY <1>1 DEF Reach
<1>2. CASE Takes(reader, s, room) /\ reader \in {"parser", "server"}
  BY <1>2 DEF Reach
<1>3. CASE Takes(reader, s, room) /\ reader \notin {"parser", "server"}
  <2>1. s.type \in Understood(reader) /\ Suffices(reader, s)
        /\ (s.type = MQCFT_STRING => ~Refuses(reader, s, room))
    BY <1>3 DEF Takes
  <2>2. reader \in {"monitor", "reply", "status", "discover"}
    BY <1>3 DEF Readers
  <2>3. s.length >= Smallest(reader, s.type)
    BY <2>1 DEF Suffices, WithoutWrap
  <2>4. Smallest(reader, s.type) \in Nat
    BY DEF Smallest
  <2> DEFINE n == Unsigned(s.count)
             text == IF reader = "reply" /\ Unsigned(20 + n) > s.length
                       THEN s.length - 20 ELSE n
             list == IF Unsigned(16 + 4 * n) > s.length THEN (s.length - 16) \div 4 ELSE n
  <2>5. /\ s.type = MQCFT_STRING_LIST => Reach(reader, s, room) = room
        /\ s.type \notin {MQCFT_STRING, MQCFT_INTEGER_LIST, MQCFT_STRING_LIST} =>
             Reach(reader, s, room) = Smallest(reader, s.type)
    BY <1>3 DEF Reach, MQCFT_STRING, MQCFT_INTEGER_LIST, MQCFT_STRING_LIST
  <2>12. s.type = MQCFT_STRING => Reach(reader, s, room) = 20 + text
    BY <1>3 DEF Reach, MQCFT_STRING, MQCFT_INTEGER_LIST, MQCFT_STRING_LIST
  <2>13. s.type = MQCFT_INTEGER_LIST => Reach(reader, s, room) = 16 + 4 * list
    BY <1>3 DEF Reach, MQCFT_STRING, MQCFT_INTEGER_LIST, MQCFT_STRING_LIST
  <2>6. n \in Nat
    BY UnsignedNat
  <2>7. ASSUME reader \in {"reply", "status"}
        PROVE  /\ n = s.count /\ s.count \in Nat /\ 8 <= s.length
               /\ Unsigned(12 + n) = 12 + n /\ Unsigned(20 + n) = 20 + n
               /\ Unsigned(16 + 4 * n) = 16 + 4 * n
               /\ Unsigned(s.length - 8) = s.length - 8
    <3>1. /\ s.count \in Nat /\ 20 + 4 * s.count < Word /\ 8 <= s.length /\ s.length < Word
          /\ Word \in Nat
      BY <2>7, WordAssumption DEF WithoutWrap
    <3>2. ASSUME NEW c \in Nat, 20 + 4 * c < Word
          PROVE  /\ c < Word /\ 12 + c \in Nat /\ 12 + c < Word /\ 20 + c \in Nat
                 /\ 20 + c < Word /\ 16 + 4 * c \in Nat /\ 16 + 4 * c < Word
      BY <3>1, <3>2
    <3>3. n = s.count
      BY <3>1, <3>2, SmallUnsigned
    <3>4. /\ Unsigned(12 + n) = 12 + n /\ Unsigned(20 + n) = 20 + n
          /\ Unsigned(16 + 4 * n) = 16 + 4 * n
      <4> HIDE DEF n
      <4> QED
        BY <3>1, <3>2, <3>3, SmallUnsigned
    <3>5. s.length - 8 \in Nat /\ s.length - 8 < Word
      BY <3>1
    <3> QED
      BY <3>1, <3>3, <3>4, <3>5, SmallUnsigned
  <2> HIDE DEF n, text, list
  <2>8. CASE s.type = MQCFT_STRING
    <3>1. ~Refuses(reader, s, room)
      BY <2>1, <2>8
    <3>2. CASE reader = "monitor"
      <4>1. s.count \in Nat /\ 20 + s.count <= room
        BY <3>1, <3>2 DEF Refuses
      <4>2. n = s.count
        BY <4>1, SmallUnsigned, WordAssumption DEF n
      <4>3. text = n
        BY <3>2 DEF text
      <4> QED
        BY <2>8, <2>12, <4>1, <4>2, <4>3
    <3>3. CASE reader = "discover"
      <4>1. 20 + n <= room
        BY <2>6, <3>1, <3>3 DEF Refuses, n
      <4>2. text = n
        BY <3>3 DEF text
      <4> QED
        BY <2>8, <2>12, <4>1, <4>2
    <3>4. CASE reader = "status"
      <4>1. ~(Unsigned(12 + n) > Unsigned(s.length - 8))
        BY <3>1, <3>4 DEF Refuses, n
      <4>2. 12 + n <= s.length - 8
        BY <2>6, <2>7, <3>4, <4>1
      <4>3. text = n
        BY <3>4 DEF text
      <4> QED
        BY <2>6, <2>8, <2>12, <4>2, <4>3
    <3>5. CASE reader = "reply"
      <4>1. s.length >= 24
        BY <2>3, <2>8, <3>5 DEF Smallest
      <4>2. 20 + text <= s.length
        BY <2>6, <2>7, <3>5, <4>1 DEF text
      <4>3. text \in Int
        BY <2>6 DEF text
      <4> QED
        BY <2>8, <2>12, <4>2, <4>3
    <3> QED
      BY <2>2, <3>2, <3>3, <3>4, <3>5
  <2>9. CASE s.type = MQCFT_INTEGER_LIST
    <3>1. reader = "reply"
      BY <2>1, <2>2, <2>9 DEF Understood, MQCFT_INTEGER_LIST, MQCFT_INTEGER, MQCFT_STRING,
         MQCFT_INTEGER64, MQCFT_GROUP, MQCFT_STRING_LIST
    <3>2. s.length >= 16
      BY <2>3, <2>9 DEF Smallest, MQCFT_STRING, MQCFT_INTEGER64, MQCFT_STRING_LIST,
         MQCFT_INTEGER_LIST
    <3>3. 16 + 4 * list <= s.length /\ list \in Int
      <4>1. 16 + 4 * ((s.length - 16) \div 4) <= s.length /\ (s.length - 16) \div 4 \in Int
        BY <3>2, ListFits
      <4>2. ~(Unsigned(16 + 4 * n) > s.length) => 16 + 4 * n <= s.length
        BY <2>6, <2>7, <3>1
      <4> QED
        BY <2>6, <4>1, <4>2 DEF list
    <3> QED
      BY <2>9, <2>13, <3>3
  <2>10. CASE s.type = MQCFT_STRING_LIST
    BY <2>5, <2>10
  <2>11. CASE s.type \notin {MQCFT_STRING, MQCFT_INTEGER_LIST, MQCFT_STRING_LIST}
    <3>1. Reach(reader, s, room) = Smallest(reader, s.type)
      BY <2>5, <2>11
    <3> QED
      BY <2>3, <2>4, <3>1
  <2> QED
    BY <2>8, <2>9, <2>10, <2>11
<1> QED
  BY <1>1, <1>2, <1>3

LEMMA InsideInvariant == IInv => ReadsInBounds
<1> SUFFICES ASSUME IInv, Reading,
                    input.reader \in {"reply", "status"} => WithoutWrap(Here)
             PROVE  offset + Reach(input.reader, Here, Room) <= M.len
  BY DEF ReadsInBounds
<1>1. /\ Head(frames).end \in Nat /\ offset \in Nat /\ offset <= Head(frames).end
      /\ Head(frames).end <= M.len /\ M.len \in Nat /\ Here.count \in Int /\ M.len < Word
      /\ Here.length \in Nat /\ offset + Here.length <= Head(frames).end
  BY Innermost, FitsProperties, Readings DEF Reading
<1>2. /\ Room \in Nat /\ Room < Word /\ offset + Room <= M.len /\ Here.length <= Room
  BY <1>1, WordAssumption DEF Room
<1>3. HeadBytes(input.reader) <= Room /\ input.reader \in Readers
  <2>1. offset + HeadBytes(input.reader) <= Head(frames).end
    BY DEF Reading, Fits
  <2>2. HeadBytes(input.reader) \in Nat
    BY DEF HeadBytes
  <2> QED
    BY <1>1, <2>1, <2>2 DEF Room, IInv, TypeOK
<1>4. Reach(input.reader, Here, Room) <= Room
  BY <1>1, <1>2, <1>3, ReachBounded
<1>5. Reach(input.reader, Here, Room) \in Int
  <2>1. Unsigned(Here.count) \in Nat
    BY <1>1, UnsignedNat
  <2>2. HeadBytes(input.reader) \in Int /\ Smallest(input.reader, Here.type) \in Int
    BY DEF HeadBytes, Smallest
  <2> QED
    BY <1>1, <1>2, <2>1, <2>2 DEF Reach
<1> QED
  BY <1>1, <1>2, <1>4, <1>5

-----------------------------------------------------------------------------
(* The specification.                                                      *)

LEMMA Initially == Init => IInv
  <1>. SUFFICES ASSUME Init PROVE IInv
    OBVIOUS
  <1>1. /\ input \in Inputs /\ k = 1 /\ offset = HeaderSize /\ frames = <<>>
        /\ decoded = <<>>
    BY DEF Init
  <1>2. input.reader \in Readers /\ Len(input.msgs) \in Nat /\ Len(input.msgs) > 0
    <2>1. /\ input.reader \in Readers
          /\ input.msgs \in Seq({input.msgs[j] : j \in DOMAIN input.msgs})
          /\ Len(input.msgs) > 0
      BY <1>1, InputsAssumption DEF IsSequence
    <2>. QED  BY <2>1
  <1>3. <<>> \in Seq({}) /\ DOMAIN <<>> = {} /\ Len(<<>>) = 0
    OBVIOUS
  <1>4. IsSequence(<<>>)
    BY <1>3, OverItself
  <1>. QED  BY <1>1, <1>2, <1>3, <1>4 DEF IInv, TypeOK, WalkInBounds, LastMessage, HeaderSize

LEMMA Step == IInv /\ [Next]_vars => IInv' /\ [Advances]_vars
  <1>. SUFFICES ASSUME IInv, [Next]_vars PROVE IInv' /\ [Advances]_vars
    OBVIOUS
  <1>1. CASE Decode
    BY <1>1, StartMessageStep, PassMessageStep, EndMessageStep, ReadParamStep,
       SkipQueueStep, EnterGroupStep, LeaveGroupStep DEF Decode
  <1>2. CASE UNCHANGED vars
    <2>1. IInv'
      BY <1>2 DEF vars, IInv, TypeOK, WalkInBounds, LastMessage, M
    <2>. QED  BY <1>2, <2>1
  <1>. QED  BY <1>1, <1>2 DEF Next, Finished

THEOREM Invariance == Spec => []IInv
  <1>. QED  BY Initially, Step, PTL DEF Spec

\* The state of the loops is always one of the states they can be in: at most
\* one message past the last, one result for every message done with.
THEOREM TypeCorrect == Spec => []TypeOK
  <1>1. IInv => TypeOK
    BY DEF IInv
  <1>. QED  BY <1>1, Invariance, PTL

\* Whatever lengths and counts the messages hold, where a loop stands is inside its
\* message and inside the region of the loop around it.
THEOREM StaysInMessage == Spec => []WalkInBounds
  <1>1. IInv => WalkInBounds
    BY DEF IInv
  <1>. QED  BY <1>1, Invariance, PTL

\* Whatever StringLength and Count a structure has, a turn of a loop looks at nothing
\* behind the end of its message; of the status and the reply readers this holds
\* where no sum of a length or a count wraps in their uint32_t.
THEOREM ReadsInside == Spec => []ReadsInBounds
  <1>. QED  BY InsideInvariant, Invariance, PTL

\* Whatever lengths the messages hold, a turn of a loop moves on, and what does
\* not move on ends a group: with StaysInMessage, no message holds a loop for ever.
THEOREM AlwaysAdvances == Spec => WalkAdvances
  <1>1. IInv /\ [Next]_vars =>
          [k' = k /\ frames # <<>> =>
             \/ offset' > offset
             \/ offset' = offset /\ Len(frames') < Len(frames)]_vars
    BY Step DEF Advances
  <1>. QED  BY <1>1, Invariance, PTL DEF Spec, WalkAdvances
-----------------------------------------------------------------------------
(* What the loops read.  The inductive invariant says how far a loop has   *)
(* come: the structures of a message stand in a row, and the loop has read *)
(* the first of them.                                                      *)

\* The loop of a reader that knows no groups has read the first r of the row.
RowsRead(r) ==
    /\ offset = StartOf(M, r + 1)
    /\ frames[1].left = IF input.reader = "server" THEN M.count - r ELSE Unbounded
    /\ IsSequence(frames[1].params)
    /\ Listed(frames[1].params, input.reader, Row(M), r)

RowInv ==
    frames # <<>> /\ Meant(M) /\ input.reader \notin {"parser", "monitor"} =>
        /\ Len(frames) = 1 /\ frames[1].end = M.len
        /\ \E r \in 0 .. Len(Row(M)) : RowsRead(r)

\* The outer loop of the parser or the monitor has read the first i items.
ItemsRead(i, outer) ==
    outer = Frame(0, M.len, Unbounded, Trees(input.reader, M.items, i))

\* The loop over the next item, a group, has read the first j members.
MembersRead(i, j, inner) ==
    LET group == M.items[i + 1] IN
    /\ i < M.good /\ group.type = MQCFT_GROUP
    /\ offset = StartOf(M, Place(M, i + 1) + 1 + j)
    /\ inner = IF input.reader = "parser"
                 THEN Frame(group.id, StartOf(M, Place(M, i + 2)), Unbounded,
                            [x \in 1 .. j |-> Leaf("parser", group.members[x])])
                 ELSE Frame(group.id, M.len, Len(group.members) - j,
                            [x \in 1 .. j |-> Leaf("monitor", group.members[x])])

TreeInv ==
    frames # <<>> /\ Meant(M) /\ input.reader \in {"parser", "monitor"} =>
        \E i \in 0 .. M.good :
          \/ /\ Len(frames) = 1 /\ ItemsRead(i, frames[1])
             /\ offset = StartOf(M, Place(M, i + 1))
          \/ /\ Len(frames) = 2 /\ ItemsRead(i, frames[2])
             /\ \E j \in 0 .. Len(M.items[i + 1].members) : MembersRead(i, j, frames[1])

ContentInv == RowInv /\ TreeInv /\ DecodesWhatWasSent

-----------------------------------------------------------------------------
(* Rows.                                                                   *)

\* Among numbers that are bounded below there is a least one.
LEMMA LeastOf ==
  ASSUME NEW A \in SUBSET Nat, A # {}
  PROVE  \E x \in A : \A y \in A : ~(y < x)
<1>1. PICK x \in A : \A y \in A : <<y, x>> \notin OpToRel(<, Nat)
  BY NatLessThanWellFounded, WFMin
<1> QED
  BY <1>1 DEF OpToRel

\* A row of numbers in which each is as large as the one before or larger.
LEMMA Climbs ==
  ASSUME NEW n \in Nat, NEW f, f[1] \in Nat,
         \A r \in 1 .. n : f[r] \in Nat => f[r + 1] \in Nat /\ f[r] <= f[r + 1]
  PROVE  /\ \A r \in 1 .. n + 1 : f[r] \in Nat
         /\ \A r, s \in 1 .. n + 1 : r <= s => f[r] <= f[s]
<1>1. \A r \in 1 .. n + 1 : f[r] \in Nat
  <2> DEFINE A == {r \in 1 .. n + 1 : f[r] \notin Nat}
  <2>1. SUFFICES ASSUME A # {} PROVE FALSE
    OBVIOUS
  <2>2. A \subseteq Nat
    OBVIOUS
  <2>3. PICK r \in A : \A s \in A : ~(s < r)
    BY <2>1, <2>2, LeastOf
  <2>4. r # 1 /\ r - 1 \in 1 .. n /\ (r - 1) + 1 = r
    OBVIOUS
  <2>5. f[r - 1] \in Nat
    BY <2>3, <2>4
  <2> QED
    BY <2>4, <2>5
<1>2. ASSUME NEW q \in 1 .. n + 1, NEW p \in 1 .. n + 1, q <= p, ~(f[q] <= f[p])
      PROVE  FALSE
  <2> DEFINE A == {s \in q .. n + 1 : ~(f[q] <= f[s])}
  <2>1. A \subseteq Nat /\ p \in A
    BY <1>2
  <2>2. PICK s \in A : \A t \in A : ~(t < s)
    BY <2>1, LeastOf
  <2>3. s \in q .. n + 1 /\ ~(f[q] <= f[s]) /\ f[q] \in Nat /\ f[s] \in Nat
    BY <1>1, <1>2
  <2>4. s # q /\ s - 1 \in q .. n + 1 /\ s - 1 \in 1 .. n /\ (s - 1) + 1 = s
    BY <2>3
  <2>5. f[q] <= f[s - 1] /\ f[s - 1] \in Nat
    BY <1>1, <2>2, <2>4
  <2>6. f[s - 1] <= f[s]
    BY <2>4, <2>5
  <2> QED
    BY <2>3, <2>5, <2>6
<1> QED
  BY <1>1, <1>2

\* What a message that is laid out has.
LEMMA RowFacts ==
  ASSUME NEW m, LaidOut(m)
  PROVE  /\ Len(m.items) \in Nat /\ m.good \in 0 .. Len(m.items)
         /\ Len(Row(m)) \in Nat /\ DOMAIN Row(m) = 1 .. Len(Row(m))
         /\ StartOf(m, 1) = HeaderSize
         /\ Place(m, 1) = 1 /\ Place(m, m.good + 1) = Len(Row(m)) + 1
  BY DEF LaidOut, IsSequence

\* Its structures stand behind the header, one behind the other.
LEMMA RowStarts ==
  ASSUME NEW m, LaidOut(m)
  PROVE  /\ \A r \in 1 .. Len(Row(m)) + 1 : StartOf(m, r) \in Nat
         /\ \A r, s \in 1 .. Len(Row(m)) + 1 : r <= s => StartOf(m, r) <= StartOf(m, s)
<1> DEFINE n == Len(Row(m))
           f == [r \in 1 .. n + 1 |-> StartOf(m, r)]
<1>1. n \in Nat /\ DOMAIN Row(m) = 1 .. n /\ StartOf(m, 1) = HeaderSize
  BY RowFacts
<1>2. \A r \in 1 .. n : Bytes(Row(m)[r]) \in Nat
                       /\ StartOf(m, r + 1) = StartOf(m, r) + Bytes(Row(m)[r])
  BY <1>1 DEF LaidOut
<1>3. \A r \in 1 .. n + 1 : f[r] = StartOf(m, r)
  OBVIOUS
<1> HIDE DEF f, n
<1>4. \A r \in 1 .. n : f[r] \in Nat => f[r + 1] \in Nat /\ f[r] <= f[r + 1]
  BY <1>1, <1>2, <1>3
<1>5. f[1] \in Nat
  BY <1>1, <1>3 DEF HeaderSize
<1>6. /\ \A r \in 1 .. n + 1 : f[r] \in Nat
      /\ \A r, s \in 1 .. n + 1 : r <= s => f[r] <= f[s]
  BY <1>1, <1>4, <1>5, Climbs
<1> QED
  BY <1>3, <1>6 DEF n

\* Its items have their places in the row.
LEMMA Places ==
  ASSUME NEW m, LaidOut(m)
  PROVE  /\ \A i \in 1 .. m.good + 1 : Place(m, i) \in 1 .. Len(Row(m)) + 1
         /\ \A i \in 1 .. m.good :
              /\ Len(m.items[i].members) \in Nat
              /\ DOMAIN m.items[i].members = 1 .. Len(m.items[i].members)
              /\ Place(m, i) \in 1 .. Len(Row(m))
              /\ Place(m, i + 1) = Place(m, i) + 1 + Len(m.items[i].members)
<1> DEFINE n == m.good
           f == [i \in 1 .. n + 1 |-> Place(m, i)]
<1>1. n \in Nat /\ Place(m, 1) = 1 /\ Place(m, n + 1) = Len(Row(m)) + 1
      /\ Len(Row(m)) \in Nat
  BY RowFacts
<1>2. \A i \in 1 .. n : /\ Len(m.items[i].members) \in Nat
                        /\ DOMAIN m.items[i].members = 1 .. Len(m.items[i].members)
                        /\ Place(m, i + 1) = Place(m, i) + 1 + Len(m.items[i].members)
  <2> SUFFICES ASSUME NEW i \in 1 .. n
               PROVE  /\ Len(m.items[i].members) \in Nat
                      /\ DOMAIN m.items[i].members = 1 .. Len(m.items[i].members)
                      /\ Place(m, i + 1) = Place(m, i) + 1 + Len(m.items[i].members)
    OBVIOUS
  <2>1. /\ IsSequence(m.items[i].members)
        /\ Place(m, i + 1) = Place(m, i) + 1 + Len(m.items[i].members)
    BY DEF LaidOut
  <2> QED
    BY <2>1 DEF IsSequence
<1>3. \A i \in 1 .. n + 1 : f[i] = Place(m, i)
  OBVIOUS
<1> HIDE DEF f, n
<1>4. \A i \in 1 .. n : f[i] \in Nat => f[i + 1] \in Nat /\ f[i] <= f[i + 1]
  <2> SUFFICES ASSUME NEW i \in 1 .. n, f[i] \in Nat
               PROVE  f[i + 1] \in Nat /\ f[i] <= f[i + 1]
    OBVIOUS
  <2>1. /\ f[i] = Place(m, i) /\ f[i + 1] = Place(m, i + 1)
        /\ Len(m.items[i].members) \in Nat
        /\ Place(m, i + 1) = Place(m, i) + 1 + Len(m.items[i].members)
    BY <1>1, <1>2, <1>3
  <2> QED
    BY <2>1
<1>5. f[1] \in Nat
  BY <1>1, <1>3
<1>6. /\ \A i \in 1 .. n + 1 : f[i] \in Nat
      /\ \A i, j \in 1 .. n + 1 : i <= j => f[i] <= f[j]
  BY <1>1, <1>4, <1>5, Climbs
<1>7. \A i \in 1 .. n + 1 : Place(m, i) \in Nat /\ 1 <= Place(m, i)
                            /\ Place(m, i) <= Len(Row(m)) + 1
  BY <1>1, <1>3, <1>6
<1>8. \A i \in 1 .. n : Place(m, i) \in 1 .. Len(Row(m))
  <2> SUFFICES ASSUME NEW i \in 1 .. n PROVE Place(m, i) \in 1 .. Len(Row(m))
    OBVIOUS
  <2>1. i \in 1 .. n + 1 /\ i + 1 \in 1 .. n + 1
    BY <1>1
  <2>2. /\ Place(m, i) \in Nat /\ 1 <= Place(m, i)
        /\ Place(m, i + 1) \in Nat /\ Place(m, i + 1) <= Len(Row(m)) + 1
        /\ Len(m.items[i].members) \in Nat
        /\ Place(m, i + 1) = Place(m, i) + 1 + Len(m.items[i].members)
    BY <1>2, <1>7, <2>1
  <2> QED
    BY <1>1, <2>2
<1> QED
  BY <1>1, <1>2, <1>7, <1>8 DEF n

\* Behind the row the message ends, or nothing fits.
LEMMA RowEnd ==
  ASSUME NEW m, LaidOut(m), m.len \in Nat, m.len >= HeaderSize,
         HasGroups(m) => m.good = Len(m.items)
  PROVE  LET end == StartOf(m, Len(Row(m)) + 1)
         IN  /\ end <= m.len
             /\ end = m.len \/ At(m, end).length < 1 \/ end + At(m, end).length > m.len
<1>1. m.good = Len(m.items) => StartOf(m, Len(Row(m)) + 1) = m.len
  BY DEF LaidOut
<1>2. CASE m.good # Len(m.items)
  BY <1>2, RowFacts DEF LaidOut
<1> QED
  BY <1>1, <1>2

-----------------------------------------------------------------------------
(* What a reader wants of a row.                                           *)

\* The next of a row counts if it is wanted.
LEMMA KeptNext ==
  ASSUME NEW reader, NEW row, NEW n \in Nat
  PROVE  /\ IsFiniteSet(Kept(reader, row, n)) /\ Cardinality(Kept(reader, row, n)) \in Nat
         /\ Wanted(reader, row[n + 1]) =>
              /\ Kept(reader, row, n + 1) = Kept(reader, row, n) \cup {n + 1}
              /\ Cardinality(Kept(reader, row, n + 1)) = Cardinality(Kept(reader, row, n)) + 1
         /\ ~Wanted(reader, row[n + 1]) =>
              Kept(reader, row, n + 1) = Kept(reader, row, n)
<1>1. IsFiniteSet(Kept(reader, row, n)) /\ Cardinality(Kept(reader, row, n)) \in Nat
  <2>1. IsFiniteSet(1 .. n)
    BY FS_Interval
  <2>2. Kept(reader, row, n) \subseteq 1 .. n
    BY DEF Kept
  <2> QED
    BY <2>1, <2>2, FS_Subset, FS_CardinalityType
<1>2. 1 .. n + 1 = (1 .. n) \cup {n + 1} /\ n + 1 \notin 1 .. n
  OBVIOUS
<1>3. CASE Wanted(reader, row[n + 1])
  <2>1. Kept(reader, row, n + 1) = Kept(reader, row, n) \cup {n + 1}
    BY <1>2, <1>3 DEF Kept
  <2>2. n + 1 \notin Kept(reader, row, n)
    BY <1>2 DEF Kept
  <2> QED
    BY <1>1, <1>3, <2>1, <2>2, FS_AddElement
<1>4. CASE ~Wanted(reader, row[n + 1])
  BY <1>1, <1>2, <1>4 DEF Kept
<1> QED
  BY <1>3, <1>4

\* The number of those that are wanted up to one of them.
LEMMA KeptRank ==
  ASSUME NEW reader, NEW row, NEW n \in Nat, NEW x \in Kept(reader, row, n)
  PROVE  Cardinality(Kept(reader, row, x)) \in 1 .. Cardinality(Kept(reader, row, n))
<1>1. x \in Nat /\ x \in Kept(reader, row, x)
      /\ Kept(reader, row, x) \subseteq Kept(reader, row, n)
  BY DEF Kept
<1>2. /\ IsFiniteSet(Kept(reader, row, n)) /\ Cardinality(Kept(reader, row, n)) \in Nat
      /\ IsFiniteSet(Kept(reader, row, x)) /\ Cardinality(Kept(reader, row, x)) \in Nat
  BY <1>1, KeptNext
<1>3. Cardinality(Kept(reader, row, x)) <= Cardinality(Kept(reader, row, n))
  BY <1>1, <1>2, FS_Subset
<1>4. Cardinality(Kept(reader, row, x)) # 0
  BY <1>1, <1>2, FS_EmptySet
<1> QED
  BY <1>2, <1>3, <1>4

\* Of none there is nothing.
LEMMA ListedNone ==
  ASSUME NEW reader, NEW row
  PROVE  Listed(<<>>, reader, row, 0) /\ IsSequence(<<>>)
<1>1. Kept(reader, row, 0) = {}
  BY DEF Kept
<1>2. IsSequence(<<>>)
  BY DEF IsSequence
<1> QED
  BY <1>1, <1>2, FS_EmptySet DEF Listed

\* With the next that is wanted there is one more, and the others stay.
LEMMA ListedNext ==
  ASSUME NEW reader, NEW row, NEW n \in Nat, NEW params, IsSequence(params),
         Listed(params, reader, row, n), Wanted(reader, row[n + 1])
  PROVE  LET more == Append(params, Leaf(reader, row[n + 1]))
         IN  Listed(more, reader, row, n + 1) /\ IsSequence(more)
<1> DEFINE p == Leaf(reader, row[n + 1])
           more == Append(params, p)
           count(x) == Cardinality(Kept(reader, row, x))
<1>1. Len(params) = count(n) /\ count(n) \in Nat /\ count(n + 1) = count(n) + 1
  BY KeptNext DEF Listed
<1>2. IsSequence(more) /\ Len(more) = count(n) + 1
  BY <1>1, AppendKeeps
<1>3. /\ \A i \in 1 .. count(n) : more[i] = params[i]
      /\ more[count(n) + 1] = p
  <2> HIDE DEF p, count
  <2> QED
    BY <1>1 DEF IsSequence
<1>4. ASSUME NEW x \in Kept(reader, row, n + 1)
      PROVE  more[count(x)] = Leaf(reader, row[x])
  <2>1. CASE x = n + 1
    <3> HIDE DEF more, count
    <3> QED
      BY <1>1, <1>3, <2>1
  <2>2. CASE x # n + 1
    <3>1. x \in Kept(reader, row, n)
      BY <2>2, KeptNext
    <3>2. count(x) \in 1 .. count(n)
      BY <3>1, KeptRank
    <3>3. params[count(x)] = Leaf(reader, row[x])
      BY <3>1 DEF Listed
    <3> HIDE DEF more, count
    <3> QED
      BY <1>3, <3>2, <3>3
  <2> QED
    BY <2>1, <2>2
<1>5. Listed(more, reader, row, n + 1)
  <2> HIDE DEF more
  <2> QED
    BY <1>1, <1>2, <1>4 DEF Listed
<1> QED
  BY <1>2, <1>5

\* One that is not wanted changes nothing.
LEMMA ListedSkip ==
  ASSUME NEW reader, NEW row, NEW n \in Nat, NEW params,
         Listed(params, reader, row, n), ~Wanted(reader, row[n + 1])
  PROVE  Listed(params, reader, row, n + 1)
  BY KeptNext DEF Listed

-----------------------------------------------------------------------------
(* Messages.                                                               *)

\* What a message that is read has.
LEMMA Under ==
  ASSUME IInv, k <= LastMessage
  PROVE  /\ k \in DOMAIN input.msgs /\ M.len \in Nat /\ M.len < Word
         /\ Meant(M) => LaidOut(M)
         /\ input.reader = "server" => \E name : M \in Commands(name)
<1>1. IsSequence(input.msgs) /\ Len(input.msgs) > 0
  BY InputsAssumption DEF IInv
<1>2. k \in DOMAIN input.msgs
  BY <1>1 DEF IInv, TypeOK, LastMessage, IsSequence
<1>3. input.reader = "server" => \E name : M \in Commands(name)
  BY <1>2, CommandAssumption DEF IInv, M
<1>4. Meant(M) => LaidOut(M)
  BY DEF Meant
<1> QED
  BY <1>2, <1>3, <1>4, Readings

\* What the builders leave of their parameters.
LEMMA BuildFacts ==
  ASSUME NEW command, NEW count, NEW params, NEW m, m = BuildPcfCmd(command, count, params)
  PROVE  m.items = params /\ m.good = Len(params) /\ m.count = count
  BY DEF BuildPcfCmd, Message

\* Each command announces as many parameters as it has.
LEMMA CommandCount ==
  ASSUME NEW name, NEW m \in Commands(name), LaidOut(m)
  PROVE  m.count = Len(Row(m))
<1>1. ASSUME NEW command, NEW p, m = BuildPcfCmd(command, 1, <<p>>), p.members = <<>>
      PROVE  m.count = Len(Row(m))
  <2>1. m.items = <<p>> /\ m.good = 1 /\ m.count = 1
    <3>1. Len(<<p>>) = 1
      OBVIOUS
    <3>2. ASSUME NEW ps, ps = <<p>>
          PROVE  m.items = ps /\ m.good = Len(ps) /\ m.count = 1
      <4>1. m = BuildPcfCmd(command, 1, ps)
        BY <1>1, <3>2
      <4> QED
        BY <4>1, BuildFacts
    <3> QED
      BY <3>1, <3>2
  <2>2. m.items[1].members = <<>>
    BY <1>1, <2>1
  <2>3. /\ Place(m, 1) = 1 /\ Place(m, 2) = Place(m, 1) + 1 + 0
        /\ Place(m, 2) = Len(Row(m)) + 1 /\ Len(Row(m)) \in Nat
    BY <2>1, <2>2, RowFacts, Places
  <2> QED
    BY <2>1, <2>3
<1>2. ASSUME NEW command, NEW p, NEW q, m = BuildPcfCmd(command, 2, <<p, q>>),
             p.members = <<>>, q.members = <<>>
      PROVE  m.count = Len(Row(m))
  <2>1. m.items = <<p, q>> /\ m.good = 2 /\ m.count = 2
    <3>1. Len(<<p, q>>) = 2
      OBVIOUS
    <3>2. ASSUME NEW ps, ps = <<p, q>>
          PROVE  m.items = ps /\ m.good = Len(ps) /\ m.count = 2
      <4>1. m = BuildPcfCmd(command, 2, ps)
        BY <1>2, <3>2
      <4> QED
        BY <4>1, BuildFacts
    <3> QED
      BY <3>1, <3>2
  <2>2. m.items[1].members = <<>> /\ m.items[2].members = <<>>
    BY <1>2, <2>1
  <2>3. /\ Place(m, 1) = 1 /\ Place(m, 2) = Place(m, 1) + 1 + 0
        /\ Place(m, 3) = Place(m, 2) + 1 + 0
        /\ Place(m, 3) = Len(Row(m)) + 1 /\ Len(Row(m)) \in Nat
    <3>1. /\ Place(m, 1) = 1 /\ Place(m, 3) = Len(Row(m)) + 1 /\ Len(Row(m)) \in Nat
      BY <2>1, RowFacts
    <3>2. \A i \in 1 .. 2 : Place(m, i + 1) = Place(m, i) + 1 + Len(m.items[i].members)
      BY <2>1, Places
    <3>3. Place(m, 2) = Place(m, 1) + 1 + Len(m.items[1].members)
          /\ Place(m, 3) = Place(m, 2) + 1 + Len(m.items[2].members)
      BY <3>2
    <3> QED
      BY <2>2, <3>1, <3>3
  <2>4. Place(m, 2) = 2
    BY <2>3
  <2>5. ASSUME NEW n, n = Len(Row(m)) PROVE n = 2
    <3>1. n \in Nat /\ n + 1 = 3
      BY <2>3, <2>4, <2>5
    <3> QED
      BY <3>1
  <2> QED
    BY <2>1, <2>5
<1>3. ASSUME NEW command, m = BuildPcfCmd(command, 0, <<>>)
      PROVE  m.count = Len(Row(m))
  <2>1. m.good = 0 /\ m.count = 0
    BY <1>3, BuildFacts
  <2> QED
    BY <2>1, RowFacts
<1>4. \A id, value : Text(id, value).members = <<>> /\ Int32(id, value).members = <<>>
  BY DEF Text, Int32, Item
<1>5. CASE m \in {BuildInquireQ(name), BuildInquireQStatus(name),
                 BuildInquireQStatusOnline(name)}
  BY <1>2, <1>4, <1>5 DEF BuildInquireQ, BuildInquireQStatus, BuildInquireQStatusOnline
<1>6. CASE m \in {BuildInquireChannelStatus(name), BuildInquireTopicStatus(name),
                 BuildInquireSubStatus(name), BuildInquireClusterQmgr(name),
                 BuildInquireUsage(1), BuildInquireUsage(2), BuildResetQStats(name)}
  BY <1>1, <1>4, <1>6 DEF BuildInquireChannelStatus, BuildInquireTopicStatus,
     BuildInquireSubStatus, BuildInquireClusterQmgr, BuildInquireUsage, BuildResetQStats
<1>7. CASE m = BuildInquireQmgrStatus
  BY <1>3, <1>7 DEF BuildInquireQmgrStatus
<1> QED
  BY <1>5, <1>6, <1>7 DEF Commands

\* Nothing in the row of a message that is read as it was meant wraps, or reaches
\* over its end: each reader takes what the item says.
LEMMA ReadsItem ==
  ASSUME NEW m, LaidOut(m), m.len < Word, m.len \in Nat, NEW r \in 1 .. Len(Row(m)),
         NEW item, item = Row(m)[r], NEW reader, NEW room \in Int,
         StartOf(m, r + 1) <= StartOf(m, r) + room, StartOf(m, r + 1) <= m.len
  PROVE  Reads(reader, Own(item), room) = Leaf(reader, item)
<1> DEFINE s == Own(item)
<1>1. /\ s.type = item.type /\ s.id = item.id /\ s.length = Bytes(item)
      /\ s.count = Announced(item)
  BY DEF Own, Structure
<1>2. CASE item.type # MQCFT_STRING
  BY <1>1, <1>2 DEF Reads, Leaf
<1>3. CASE item.type = MQCFT_STRING
  <2>1. /\ Bytes(item) \in Nat /\ Announced(item) \in Nat
        /\ 20 + Announced(item) <= Bytes(item)
        /\ StartOf(m, r + 1) = StartOf(m, r) + Bytes(item)
    <3>1. r \in DOMAIN Row(m)
      BY RowFacts
    <3> QED
      BY <1>3, <3>1 DEF LaidOut
  <2>2. StartOf(m, r) \in Nat /\ StartOf(m, r + 1) \in Nat
    <3>1. Len(Row(m)) \in Nat
      BY RowFacts
    <3>2. r \in 1 .. Len(Row(m)) + 1 /\ r + 1 \in 1 .. Len(Row(m)) + 1
      BY <3>1
    <3> QED
      BY <3>2, RowStarts
  <2>3. Bytes(item) <= room /\ Bytes(item) <= m.len
    <3>1. ASSUME NEW a, a = StartOf(m, r), NEW b, b = Bytes(item)
          PROVE  b <= room /\ b <= m.len
      <4>1. a \in Nat /\ b \in Nat /\ a + b <= a + room /\ a + b <= m.len
        BY <2>1, <2>2, <3>1
      <4> QED
        BY <4>1
    <3> QED
      BY <3>1
  <2>4. ASSUME NEW c, c = Announced(item), NEW b, b = Bytes(item)
        PROVE  ~Refuses(reader, s, room)
    <3>1. c \in Nat /\ b \in Nat /\ 20 + c <= b /\ b <= room /\ b < Word /\ Word \in Nat
      BY <2>1, <2>3, <2>4, WordAssumption
    <3>2. Unsigned(c) = c /\ Unsigned(12 + c) = 12 + c /\ Unsigned(b - 8) = b - 8
      <4>1. \A n \in Nat : n < Word => Unsigned(n) = n
        BY SmallUnsigned
      <4>2. /\ c \in Nat /\ c < Word /\ 12 + c \in Nat /\ 12 + c < Word
            /\ b - 8 \in Nat /\ b - 8 < Word
        BY <3>1
      <4> QED
        BY <4>1, <4>2
    <3>3. s.count = c /\ s.length = b
      BY <1>1, <2>4
    <3>4. /\ ~(s.count < 0) /\ ~(20 + s.count > room) /\ ~(20 + Unsigned(s.count) > room)
          /\ ~(Unsigned(12 + Unsigned(s.count)) > Unsigned(s.length - 8))
      BY <3>1, <3>2, <3>3
    <3> QED
      BY <3>4 DEF Refuses
  <2> QED
    BY <1>1, <1>3, <2>4 DEF Reads, Leaf
<1> QED
  BY <1>2, <1>3

\* A structure with room for it is looked at.
LEMMA RoomFits ==
  ASSUME NEW f, offset \in Nat, f.end \in Nat, f.left # 0,
         Here.length \in Nat, Here.length >= 16, offset + Here.length <= f.end
  PROVE  Fits(f, Here)
  BY DEF Fits, HeadBytes, LeastLength

\* Behind the row nothing is.
LEMMA EndFitsNot ==
  ASSUME NEW f, LaidOut(M), M.len \in Nat, Meant(M), f.end = M.len,
         Here.length \in Int, offset = StartOf(M, Len(Row(M)) + 1)
  PROVE  ~Fits(f, Here)
<1>1. M.len >= HeaderSize /\ (HasGroups(M) => M.good = Len(M.items))
  BY DEF Meant, Readable
<1>2. offset = M.len \/ Here.length < 1 \/ offset + Here.length > M.len
  BY <1>1, RowEnd DEF Here
<1>3. offset \in Nat
  BY RowFacts, RowStarts
<1> SUFFICES ASSUME Fits(f, Here) PROVE FALSE
  OBVIOUS
<1>4. offset + 8 <= M.len /\ ~(Here.length < 1) /\ ~(offset + Here.length > M.len)
  BY <1>3 DEF Fits, HeadBytes, LeastLength
<1> QED
  BY <1>2, <1>3, <1>4

-----------------------------------------------------------------------------
(* The readers that know no groups.                                        *)

RowReader == input.reader \notin {"parser", "monitor"}

\* The number that bounds a loop which has read r structures.
Left(r) == IF input.reader = "server" THEN M.count - r ELSE Unbounded

\* A loop stands before the next of the row, or has come to its end.
LEMMA NextInRow ==
  ASSUME IInv, RowInv, frames # <<>>, Meant(M), RowReader
  PROVE  \E r \in 0 .. Len(Row(M)) :
           /\ RowsRead(r) /\ frames[1].left = Left(r) /\ Len(frames) = 1
           /\ Head(frames) = frames[1] /\ frames[1].end = M.len
           /\ r < Len(Row(M)) => /\ Left(r) # 0 /\ Left(r + 1) = IF Left(r) = Unbounded
                                                           THEN Unbounded ELSE Left(r) - 1
                                /\ Reading /\ Here = Own(Row(M)[r + 1])
                                /\ offset + Here.length = StartOf(M, r + 2)
                                /\ offset = StartOf(M, r + 1)
                                /\ StartOf(M, r + 2) <= M.len
           /\ r = Len(Row(M)) => ~Reading
<1> DEFINE n == Len(Row(M))
<1>1. /\ k \in Nat /\ k <= LastMessage /\ Head(frames) = frames[1]
      /\ M.len \in Nat /\ offset \in Nat /\ Here.length \in Int
  BY Innermost
<1>2. LaidOut(M) /\ n \in Nat /\ DOMAIN Row(M) = 1 .. n
  BY <1>1, Under, RowFacts
<1>3. PICK r \in 0 .. n : RowsRead(r)
  BY DEF RowInv, RowReader
<1>4. Len(frames) = 1 /\ frames[1].end = M.len /\ frames[1].left = Left(r)
      /\ offset = StartOf(M, r + 1)
  BY <1>3 DEF RowInv, RowReader, RowsRead, Left
<1>5. CASE r = n
  <2>1. ~Fits(frames[1], Here)
    BY <1>1, <1>2, <1>4, <1>5, EndFitsNot
  <2> QED
    BY <1>1, <1>3, <1>4, <1>5, <2>1 DEF Reading
<1>6. CASE r < n
  <2>1. r + 1 \in 1 .. n /\ (r + 1) + 1 = r + 2
    BY <1>2, <1>6
  <2>2. ~HasGroups(M) \/ M.layout = "following"
    BY DEF Meant, RowReader
  <2>3. Here = Own(Row(M)[r + 1])
    BY <1>2, <1>4, <2>1, <2>2 DEF LaidOut, Here
  <2>4. /\ Bytes(Row(M)[r + 1]) \in Nat /\ Bytes(Row(M)[r + 1]) >= 16
        /\ StartOf(M, r + 2) = StartOf(M, r + 1) + Bytes(Row(M)[r + 1])
    BY <1>2, <2>1 DEF LaidOut
  <2>5. Here.length = Bytes(Row(M)[r + 1])
    BY <2>3 DEF Own, Structure
  <2>6. StartOf(M, r + 2) <= M.len
    <3>1. r + 2 \in 1 .. n + 1 /\ n + 1 \in 1 .. n + 1 /\ r + 2 <= n + 1
      BY <1>2, <1>6
    <3>2. /\ StartOf(M, r + 2) <= StartOf(M, n + 1)
          /\ StartOf(M, r + 2) \in Nat /\ StartOf(M, n + 1) \in Nat
      BY <1>2, <3>1, RowStarts
    <3>3. StartOf(M, n + 1) <= M.len
      BY <1>1, <1>2, RowEnd DEF Meant, Readable
    <3> QED
      BY <1>1, <3>2, <3>3
  <2>7. Left(r) # 0 /\ Left(r + 1) = IF Left(r) = Unbounded THEN Unbounded ELSE Left(r) - 1
    <3>1. CASE input.reader = "server"
      <4>1. M.count = n
        BY <1>1, <1>2, <3>1, Under, CommandCount
      <4>2. Left(r) = n - r /\ Left(r + 1) = n - (r + 1)
        BY <3>1, <4>1 DEF Left
      <4> HIDE DEF n
      <4> QED
        BY <1>2, <1>6, <4>2 DEF Unbounded
    <3>2. CASE input.reader # "server"
      BY <3>2 DEF Left, Unbounded
    <3> QED
      BY <3>1, <3>2
  <2>8. Fits(frames[1], Here)
    BY <1>1, <1>4, <2>4, <2>5, <2>6, <2>7, RoomFits
  <2> QED
    BY <1>1, <1>3, <1>4, <1>6, <2>3, <2>4, <2>5, <2>6, <2>7, <2>8 DEF Reading
<1>7. r < n \/ r = n
  <2> HIDE DEF n
  <2> QED
    BY <1>2, <1>3
<1> QED
  BY <1>5, <1>6, <1>7

\* The message stays the same until it is done with.
LEMMA SameMessage ==
  ASSUME UNCHANGED <<input, k>>
  PROVE  M' = M /\ Meant(M)' = Meant(M) /\ RowReader' = RowReader
  BY DEF M, Meant, Readable, RowReader

\* A loop that has read r of the row keeps the invariant.
LEMMA RowKept ==
  ASSUME UNCHANGED <<input, k>>, Len(frames') = 1, NEW f, frames'[1] = f, f.end = M.len,
         NEW r \in 0 .. Len(Row(M)), offset' = StartOf(M, r + 1), f.left = Left(r),
         IsSequence(f.params), Listed(f.params, input.reader, Row(M), r)
  PROVE  RowInv'
<1>1. M' = M
  BY SameMessage
<1>2. RowsRead(r)'
  BY <1>1 DEF RowsRead, Left
<1> QED
  BY <1>1, <1>2 DEF RowInv

\* A loop that takes a parameter has one more.
LEMMA TakenFields ==
  ASSUME NEW f, NEW p
  PROVE  /\ Taken(f, p).id = f.id /\ Taken(f, p).end = f.end
         /\ Taken(f, p).left = IF f.left = Unbounded THEN Unbounded ELSE f.left - 1
         /\ Taken(f, p).params = Append(f.params, p)
  BY DEF Taken, Frame

\* A turn of such a loop reads or skips the next of the row.
LEMMA RowTurn ==
  ASSUME IInv, RowInv, Meant(M), RowReader, ReadParam \/ SkipQueue
  PROVE  RowInv'
<1>1. frames # <<>> /\ Reading /\ UNCHANGED <<input, k>> /\ offset' = offset + Here.length
  BY DEF ReadParam, SkipQueue, Reading
<1>2. PICK r \in 0 .. Len(Row(M)) :
        /\ RowsRead(r) /\ frames[1].left = Left(r) /\ Len(frames) = 1
        /\ Head(frames) = frames[1] /\ frames[1].end = M.len
        /\ r < Len(Row(M)) => /\ Left(r) # 0 /\ Left(r + 1) = IF Left(r) = Unbounded
                                                        THEN Unbounded ELSE Left(r) - 1
                             /\ Reading /\ Here = Own(Row(M)[r + 1])
                             /\ offset + Here.length = StartOf(M, r + 2)
                             /\ offset = StartOf(M, r + 1)
                             /\ StartOf(M, r + 2) <= M.len
        /\ r = Len(Row(M)) => ~Reading
  BY <1>1, NextInRow
<1>3. Len(Row(M)) \in Nat
  BY <1>1, Innermost, Under, RowFacts
<1>4. /\ r < Len(Row(M)) /\ r \in Nat /\ r + 1 \in 0 .. Len(Row(M)) /\ (r + 1) + 1 = r + 2
  <2>1. ASSUME NEW n, n = Len(Row(M))
        PROVE  r < n /\ r \in Nat /\ r + 1 \in 0 .. n /\ (r + 1) + 1 = r + 2
    <3>1. r \in 0 .. n /\ r # n /\ n \in Nat
      BY <1>1, <1>2, <1>3, <2>1
    <3> QED
      BY <3>1
  <2> QED
    BY <2>1
<1> DEFINE item == Row(M)[r + 1]
<1>5. /\ Here = Own(item) /\ offset' = StartOf(M, (r + 1) + 1)
      /\ Left(r + 1) = IF Left(r) = Unbounded THEN Unbounded ELSE Left(r) - 1
  BY <1>1, <1>2, <1>4
<1>6. Here.type = item.type /\ Here.id = item.id /\ Here.value = item.value
  BY <1>5 DEF Own, Structure
<1>7. Skips(Here) <=> ~Wanted(input.reader, item)
  BY <1>6 DEF Skips, Wanted
<1>8. IsSequence(frames[1].params) /\ Listed(frames[1].params, input.reader, Row(M), r)
  BY <1>2 DEF RowsRead
<1>9. CASE ReadParam
  <2> DEFINE p == Reads(input.reader, Here, Room)
             f == Taken(frames[1], p)
  <2>1. Wanted(input.reader, item) /\ p = Leaf(input.reader, item)
    <3>1. Room = M.len - offset /\ M.len \in Nat /\ offset \in Nat /\ M.len < Word
      BY <1>1, <1>2, Innermost, Under DEF Room
    <3>2. Room \in Int /\ offset + Room = M.len
      BY <3>1
    <3>3. LaidOut(M) /\ r + 1 \in 1 .. Len(Row(M))
      <4>1. LaidOut(M)
        BY DEF Meant
      <4>2. ASSUME NEW n, n = Len(Row(M)) PROVE r + 1 \in 1 .. n
        <5>1. n \in Nat /\ r \in Nat /\ r < n
          BY <1>3, <1>4, <4>2
        <5> QED
          BY <5>1
      <4> QED
        BY <4>1, <4>2
    <3>4. /\ StartOf(M, (r + 1) + 1) <= StartOf(M, r + 1) + Room
          /\ StartOf(M, (r + 1) + 1) <= M.len
      BY <1>2, <1>4, <3>2
    <3>5. p = Leaf(input.reader, item)
      BY <1>5, <3>1, <3>2, <3>3, <3>4, ReadsItem
    <3> QED
      BY <1>7, <1>9, <3>5 DEF ReadParam
  <2>2. frames' = <<f>> \o Tail(frames)
    BY <1>2, <1>9 DEF ReadParam
  <2>3. Len(frames') = 1 /\ frames'[1] = f
    <3>1. IsSequence(Tail(frames)) /\ Len(Tail(frames)) = 0
      BY <1>1, <1>2, PopProperties DEF IInv
    <3> HIDE DEF f
    <3>2. /\ Len(<<f>> \o Tail(frames)) = Len(Tail(frames)) + 1
          /\ (<<f>> \o Tail(frames))[1] = f
      BY <3>1, PushProperties
    <3> QED
      BY <2>2, <3>1, <3>2
  <2>4. /\ f.end = M.len /\ f.left = Left(r + 1)
        /\ f.params = Append(frames[1].params, Leaf(input.reader, item))
    BY <1>2, <1>5, <2>1, TakenFields
  <2>5. IsSequence(f.params) /\ Listed(f.params, input.reader, Row(M), r + 1)
    BY <1>4, <1>8, <2>1, <2>4, ListedNext
  <2> HIDE DEF f, item
  <2> QED
    BY <1>1, <1>4, <1>5, <2>3, <2>4, <2>5, RowKept
<1>10. CASE SkipQueue
  <2>1. ~Wanted(input.reader, item) /\ frames' = frames
    BY <1>7, <1>10 DEF SkipQueue
  <2>2. Listed(frames[1].params, input.reader, Row(M), r + 1)
    BY <1>4, <1>8, <2>1, ListedSkip
  <2>3. Left(r) = Unbounded /\ Left(r + 1) = Unbounded
    BY <1>5, <1>10 DEF SkipQueue, Skips, Left
  <2> QED
    BY <1>1, <1>2, <1>4, <1>5, <1>8, <2>1, <2>2, <2>3, RowKept
<1> QED
  BY <1>9, <1>10

\* Every step keeps what such a loop has read.
LEMMA RowStep ==
  ASSUME IInv, RowInv, [Next]_vars
  PROVE  RowInv'
<1> SUFFICES ASSUME frames' # <<>>, Meant(M)', RowReader' PROVE RowInv'
  BY DEF RowInv, RowReader
<1>1. CASE StartMessage
  <2> DEFINE f == Frame(0, M.len, IF input.reader = "server" THEN M.count ELSE Unbounded, <<>>)
  <2>1. /\ UNCHANGED <<input, k>> /\ frames' = <<f>> /\ offset' = HeaderSize /\ ~Done
    <3>1. UNCHANGED <<input, k>> /\ frames' = <<f>> /\ offset' = FirstOffset /\ ~Done
      BY <1>1 DEF StartMessage
    <3>2. RowReader
      BY <3>1, SameMessage
    <3> QED
      BY <3>1, <3>2 DEF FirstOffset, RowReader
  <2>2. f.end = M.len /\ f.params = <<>> /\ f.left = IF input.reader = "server"
                                                   THEN M.count ELSE Unbounded
    BY DEF Frame
  <2>3. k <= LastMessage
    <3>1. Len(input.msgs) \in Nat
      BY InputsAssumption DEF IInv, IsSequence
    <3> QED
      BY <2>1, <3>1 DEF IInv, TypeOK, LastMessage, Done
  <2>4. LaidOut(M) /\ M.count \in Nat
    <3>1. Meant(M)
      BY <2>1, SameMessage
    <3> QED
      BY <2>3, <3>1, Under, Readings
  <2>5. Left(0) = f.left /\ StartOf(M, 0 + 1) = HeaderSize /\ Len(Row(M)) \in Nat
    BY <2>2, <2>4, RowFacts DEF Left
  <2>6. 0 \in 0 .. Len(Row(M))
    BY <2>5
  <2> HIDE DEF f
  <2>7. Len(frames') = 1 /\ frames'[1] = f
    BY <2>1
  <2> QED
    BY <2>1, <2>2, <2>5, <2>6, <2>7, ListedNone, RowKept
<1>2. CASE PassMessage \/ EndMessage
  BY <1>2 DEF PassMessage, EndMessage, Returns
<1>3. CASE UNCHANGED vars
  <2>1. M' = M
    BY <1>3, SameMessage DEF vars
  <2> QED
    BY <1>3, <2>1 DEF RowInv, RowsRead, vars, Meant, Readable
<1>4. ASSUME ReadParam \/ SkipQueue \/ EnterGroup \/ LeaveGroup
      PROVE  frames # <<>> /\ Meant(M) /\ RowReader /\ UNCHANGED <<input, k>>
  <2>1. UNCHANGED <<input, k>>
    BY <1>4 DEF ReadParam, SkipQueue, EnterGroup, LeaveGroup
  <2>2. frames # <<>>
    BY <1>4 DEF ReadParam, SkipQueue, EnterGroup, LeaveGroup, Reading
  <2> QED
    BY <2>1, <2>2, SameMessage
<1>5. CASE ReadParam \/ SkipQueue
  BY <1>4, <1>5, RowTurn
<1>6. CASE EnterGroup
  BY <1>4, <1>6 DEF EnterGroup, EntersGroup, RowReader
<1>7. CASE LeaveGroup
  <2>1. Len(frames) = 1
    BY <1>4, <1>7 DEF RowInv, RowReader
  <2> QED
    BY <1>7, <2>1 DEF LeaveGroup
<1> QED
  BY <1>1, <1>2, <1>3, <1>5, <1>6, <1>7 DEF Next, Decode, Finished

-----------------------------------------------------------------------------
(* The parser and the monitor.                                             *)

\* Where an item is, and what is there.
LEMMA ItemPlace ==
  ASSUME NEW m, LaidOut(m), NEW i \in 1 .. m.good
  PROVE  LET item == m.items[i]  place == Place(m, i)
         IN  /\ place \in 1 .. Len(Row(m)) /\ Row(m)[place] = item
             /\ Place(m, i + 1) = place + 1 + Len(item.members)
             /\ Place(m, i + 1) \in 1 .. Len(Row(m)) + 1
             /\ Len(item.members) \in Nat /\ DOMAIN item.members = 1 .. Len(item.members)
<1> DEFINE item == m.items[i]
           place == Place(m, i)
<1>1. /\ place \in 1 .. Len(Row(m)) /\ Place(m, i + 1) = place + 1 + Len(item.members)
      /\ Len(item.members) \in Nat /\ DOMAIN item.members = 1 .. Len(item.members)
  BY Places
<1>2. Place(m, i + 1) \in 1 .. Len(Row(m)) + 1
  <2>1. i + 1 \in 1 .. m.good + 1
    BY RowFacts
  <2> QED
    BY <2>1, Places
<1>3. Row(m)[place] = item
  BY DEF LaidOut
<1> QED
  BY <1>1, <1>2, <1>3

\* The same for one of its members.
LEMMA MemberPlace ==
  ASSUME NEW m, LaidOut(m), NEW i \in 1 .. m.good, NEW item, item = m.items[i],
         NEW place, place = Place(m, i), NEW j \in 1 .. Len(item.members)
  PROVE  /\ place + j \in 1 .. Len(Row(m)) /\ Row(m)[place + j] = item.members[j]
         /\ item.members[j].type # MQCFT_GROUP
<1>1. j \in DOMAIN item.members
  BY ItemPlace
<1>2. Row(m)[place + j] = item.members[j] /\ item.members[j].type # MQCFT_GROUP
  BY <1>1 DEF LaidOut
<1>3. /\ Len(Row(m)) \in Nat /\ Len(item.members) \in Nat /\ place \in 1 .. Len(Row(m))
      /\ place + 1 + Len(item.members) \in 1 .. Len(Row(m)) + 1
  <2>1. /\ Len(item.members) \in Nat /\ place \in 1 .. Len(Row(m))
        /\ place + 1 + Len(item.members) \in 1 .. Len(Row(m)) + 1
    BY ItemPlace
  <2> QED
    BY <2>1, RowFacts
<1>4. ASSUME NEW n, n = Len(Row(m)), NEW l, l = Len(item.members)
      PROVE  place + j \in 1 .. n
  <2>1. /\ n \in Nat /\ l \in Nat /\ j \in 1 .. l /\ place \in 1 .. n
        /\ place + 1 + l \in 1 .. n + 1
    BY <1>3, <1>4
  <2> QED
    BY <2>1
<1> QED
  BY <1>2, <1>4

\* Where the item is that comes after the first i.
LEMMA NextPlace ==
  ASSUME NEW m, LaidOut(m), NEW i \in 0 .. m.good, i < m.good
  PROVE  LET item == m.items[i + 1]  place == Place(m, i + 1)
         IN  /\ i + 1 \in 1 .. m.good
             /\ place \in 1 .. Len(Row(m)) /\ Row(m)[place] = item /\ Len(Row(m)) \in Nat
             /\ Place(m, i + 2) = place + 1 + Len(item.members)
             /\ Place(m, i + 2) \in 1 .. Len(Row(m)) + 1
             /\ Len(item.members) \in Nat /\ DOMAIN item.members = 1 .. Len(item.members)
<1> DEFINE item == m.items[i + 1]
           place == Place(m, i + 1)
<1>1. i + 1 \in 1 .. m.good /\ (i + 1) + 1 = i + 2 /\ Len(Row(m)) \in Nat
  BY RowFacts
<1>2. ASSUME NEW q, q = i + 1
      PROVE  /\ place \in 1 .. Len(Row(m)) /\ Row(m)[place] = item
             /\ Place(m, q + 1) = place + 1 + Len(item.members)
             /\ Place(m, q + 1) \in 1 .. Len(Row(m)) + 1
             /\ Len(item.members) \in Nat /\ DOMAIN item.members = 1 .. Len(item.members)
  <2>1. q \in 1 .. m.good /\ item = m.items[q] /\ place = Place(m, q)
    BY <1>1, <1>2
  <2> HIDE DEF item, place
  <2> QED
    BY <2>1, ItemPlace
<1> QED
  BY <1>1, <1>2

\* A structure of the row that is no group.
LEMMA PlainAt ==
  ASSUME NEW m, LaidOut(m), NEW r \in 1 .. Len(Row(m)), NEW item, item = Row(m)[r],
         item.type # MQCFT_GROUP
  PROVE  /\ At(m, StartOf(m, r)) = Own(item) /\ Own(item).length \in Nat
         /\ Own(item).length >= 16
         /\ StartOf(m, r) \in Nat /\ StartOf(m, r) + Own(item).length = StartOf(m, r + 1)
<1>1. r \in DOMAIN Row(m) /\ r \in 1 .. Len(Row(m)) + 1
  BY RowFacts
<1>2. StartOf(m, r) \in Nat
  BY <1>1, RowStarts
<1>3. /\ At(m, StartOf(m, r)) = Own(item) /\ Bytes(item) \in Nat /\ Bytes(item) >= 16
      /\ StartOf(m, r + 1) = StartOf(m, r) + Bytes(item)
  BY <1>1 DEF LaidOut
<1>4. Own(item).length = Bytes(item)
  BY DEF Own, Structure
<1> QED
  BY <1>2, <1>3, <1>4

\* The header of a group.
LEMMA GroupAt ==
  ASSUME NEW m, LaidOut(m), NEW i \in 1 .. m.good, NEW item, item = m.items[i],
         item.type = MQCFT_GROUP, NEW s, s = At(m, StartOf(m, Place(m, i)))
  PROVE  /\ s.type = MQCFT_GROUP /\ s.id = item.id /\ s.count = Len(item.members)
         /\ StartOf(m, Place(m, i)) \in Nat
         /\ StartOf(m, Place(m, i)) + 16 = StartOf(m, Place(m, i) + 1)
         /\ m.layout = "following" => s.length = 16
         /\ m.layout = "nested" =>
              StartOf(m, Place(m, i)) + s.length = StartOf(m, Place(m, i + 1))
<1> DEFINE r == Place(m, i)
<1>1. r \in 1 .. Len(Row(m)) /\ Row(m)[r] = item
  BY ItemPlace
<1>2. r \in DOMAIN Row(m) /\ r \in 1 .. Len(Row(m)) + 1
  BY <1>1, RowFacts
<1>3. Bytes(item) = 16
  BY DEF Bytes, MQCFT_GROUP, MQCFT_INTEGER, MQCFT_INTEGER64, MQCFT_STRING,
         MQCFT_INTEGER_LIST, MQCFT_INTEGER64_LIST, MQCFT_STRING_LIST
<1>4. /\ s = [Own(item) EXCEPT !.length = s.length]
      /\ m.layout = "following" => s = Own(item)
      /\ StartOf(m, r + 1) = StartOf(m, r) + Bytes(item)
  BY <1>1, <1>2 DEF LaidOut
<1>5. m.layout = "nested" => StartOf(m, r) + s.length = StartOf(m, Place(m, i + 1))
  BY DEF LaidOut
<1>6. /\ s.type = item.type /\ s.id = item.id /\ s.count = Len(item.members)
      /\ m.layout = "following" => s.length = Bytes(item)
  <2>1. Announced(item) = Len(item.members)
    BY DEF Announced, MQCFT_GROUP, MQCFT_INTEGER, MQCFT_INTEGER64, MQCFT_STRING,
           MQCFT_INTEGER_LIST, MQCFT_INTEGER64_LIST, MQCFT_STRING_LIST
  <2> QED
    BY <1>4, <2>1 DEF Own, Structure
<1> QED
  BY <1>2, <1>3, <1>4, <1>5, <1>6, RowStarts

\* A sequence is its front and its last element.
LEMMA FrontLast ==
  ASSUME NEW n \in Nat, NEW f, f = [x \in 1 .. n + 1 |-> f[x]]
  PROVE  f = Append([x \in 1 .. n |-> f[x]], f[n + 1])
<1> DEFINE g == [x \in 1 .. n |-> f[x]]
           S == {f[x] : x \in 1 .. n + 1}
<1>1. g \in Seq(S) /\ Len(g) = n /\ f \in Seq(S) /\ Len(f) = n + 1
  OBVIOUS
<1>2. \A x \in 1 .. n + 1 : f[x] = Append(g, f[n + 1])[x]
  BY <1>1
<1>3. Append(g, f[n + 1]) \in Seq(S) /\ Len(Append(g, f[n + 1])) = n + 1
  BY <1>1
<1> HIDE DEF g, S
<1>4. f = Append(g, f[n + 1])
  BY <1>1, <1>2, <1>3
<1> QED
  BY <1>4 DEF g

\* With the next there is one more item, or one more member.
LEMMA TreesNext ==
  ASSUME NEW reader, NEW items, NEW n \in Nat
  PROVE  Trees(reader, items, n + 1) =
           Append(Trees(reader, items, n), Tree(reader, items[n + 1]))
<1>1. ASSUME NEW f, f = Trees(reader, items, n + 1)
      PROVE  f = Append(Trees(reader, items, n), Tree(reader, items[n + 1]))
  <2>1. f = [x \in 1 .. n + 1 |-> f[x]] /\ f[n + 1] = Tree(reader, items[n + 1])
        /\ Trees(reader, items, n) = [x \in 1 .. n |-> f[x]]
    BY <1>1 DEF Trees
  <2> QED
    BY <2>1, FrontLast
<1> QED
  BY <1>1

LEMMA LeavesNext ==
  ASSUME NEW reader, NEW items, NEW n \in Nat
  PROVE  [x \in 1 .. n + 1 |-> Leaf(reader, items[x])] =
           Append([x \in 1 .. n |-> Leaf(reader, items[x])], Leaf(reader, items[n + 1]))
<1>1. ASSUME NEW f, f = [x \in 1 .. n + 1 |-> Leaf(reader, items[x])]
      PROVE  f = Append([x \in 1 .. n |-> Leaf(reader, items[x])], Leaf(reader, items[n + 1]))
  <2>1. f = [x \in 1 .. n + 1 |-> f[x]] /\ f[n + 1] = Leaf(reader, items[n + 1])
        /\ [x \in 1 .. n |-> Leaf(reader, items[x])] = [x \in 1 .. n |-> f[x]]
    BY <1>1
  <2> QED
    BY <2>1, FrontLast
<1> QED
  BY <1>1

\* A loop with one parameter more, field by field.
LEMMA TakenFrame ==
  ASSUME NEW id, NEW end, NEW left, NEW params, NEW p
  PROVE  Taken(Frame(id, end, left, params), p) =
           Frame(id, end, IF left = Unbounded THEN Unbounded ELSE left - 1, Append(params, p))
BY DEF Taken, Frame

\* What is under way when the parser or the monitor is in a loop.
TreeReading == IInv /\ frames # <<>> /\ Meant(M) /\ ~RowReader

\* Each structure ends before the next, and the last with the message or before.
LEMMA RowInside ==
  ASSUME IInv, k <= LastMessage, Meant(M), NEW r \in 1 .. Len(Row(M)) + 1
  PROVE  /\ StartOf(M, r) \in Nat /\ StartOf(M, r) <= M.len
         /\ \A s \in 1 .. Len(Row(M)) + 1 : r <= s => StartOf(M, r) <= StartOf(M, s)
<1>1. LaidOut(M) /\ M.len \in Nat
  BY Under
<1>2. Len(Row(M)) \in Nat
  BY <1>1, RowFacts
<1>3. ASSUME NEW e, e = Len(Row(M)) + 1
      PROVE  e \in 1 .. Len(Row(M)) + 1 /\ r <= e
  <2>1. ASSUME NEW n, n = Len(Row(M)) PROVE e \in 1 .. n + 1 /\ r <= e
    BY <1>2, <1>3, <2>1
  <2> QED
    BY <2>1
<1>4. StartOf(M, r) <= StartOf(M, Len(Row(M)) + 1) /\ StartOf(M, r) \in Nat
      /\ StartOf(M, Len(Row(M)) + 1) \in Nat
  BY <1>1, <1>3, RowStarts
<1>5. StartOf(M, Len(Row(M)) + 1) <= M.len
  BY <1>1, RowEnd DEF Meant, Readable
<1>6. StartOf(M, r) <= M.len
  BY <1>1, <1>4, <1>5
<1> QED
  BY <1>1, <1>4, <1>6, RowStarts

\* What a loop makes of a structure of the row that ends inside its region.
LEMMA ReadsHere ==
  ASSUME TreeReading, NEW r \in 1 .. Len(Row(M)), NEW item, item = Row(M)[r],
         Here = Own(item), offset = StartOf(M, r), StartOf(M, r + 1) <= frames[1].end
  PROVE  Reads(input.reader, Here, Room) = Leaf(input.reader, item)
<1>1. /\ k <= LastMessage /\ Head(frames) = frames[1] /\ frames[1].end \in Nat
      /\ offset \in Nat
  BY Innermost DEF TreeReading
<1>2. LaidOut(M) /\ M.len \in Nat /\ M.len < Word
  BY <1>1, Under DEF TreeReading
<1>3. Room \in Int /\ offset + Room = frames[1].end
  BY <1>1 DEF Room
<1>4. StartOf(M, r + 1) <= M.len
  <2>1. Len(Row(M)) \in Nat
    BY <1>2, RowFacts
  <2>2. r + 1 \in 1 .. Len(Row(M)) + 1
    BY <2>1
  <2> QED
    BY <1>1, <2>2, RowInside DEF TreeReading
<1>5. StartOf(M, r + 1) <= StartOf(M, r) + Room
  BY <1>3
<1> QED
  BY <1>2, <1>3, <1>4, <1>5, ReadsItem

\* The outer loop stands before the next item, or has come to its end.
LEMMA ItemNext ==
  ASSUME TreeReading, NEW i \in 0 .. M.good, ItemsRead(i, frames[1]),
         offset = StartOf(M, Place(M, i + 1)), NEW item, item = M.items[i + 1]
  PROVE  /\ i = M.good => ~Reading
         /\ i < M.good /\ item.type # MQCFT_GROUP =>
              /\ Reading /\ Here = Own(item)
              /\ Reads(input.reader, Here, Room) = Leaf(input.reader, item)
              /\ offset + Here.length = StartOf(M, Place(M, i + 2))
         /\ i < M.good /\ item.type = MQCFT_GROUP =>
              /\ Reading /\ Here.type = MQCFT_GROUP /\ Here.length >= 16
              /\ Here.id = item.id /\ Here.count = Len(item.members)
              /\ offset + 16 = StartOf(M, Place(M, i + 1) + 1)
              /\ input.reader = "parser" =>
                   offset + Here.length = StartOf(M, Place(M, i + 2))
<1>1. /\ k \in Nat /\ k <= LastMessage /\ Head(frames) = frames[1]
      /\ M.len \in Nat /\ offset \in Nat /\ Here.length \in Int
  BY Innermost DEF TreeReading
<1>2. /\ LaidOut(M) /\ M.good \in Nat /\ Place(M, M.good + 1) = Len(Row(M)) + 1
      /\ M.good <= Len(M.items) /\ Len(M.items) \in Nat /\ DOMAIN M.items = 1 .. Len(M.items)
  <2>1. LaidOut(M)
    BY <1>1, Under DEF TreeReading
  <2>2. IsSequence(M.items)
    BY <2>1 DEF LaidOut
  <2>3. Len(M.items) \in Nat /\ DOMAIN M.items = 1 .. Len(M.items)
    BY <2>2 DEF IsSequence
  <2>4. /\ M.good \in 0 .. Len(M.items) /\ Place(M, M.good + 1) = Len(Row(M)) + 1
    BY <2>1, RowFacts
  <2> QED
    BY <2>1, <2>3, <2>4
<1>3. frames[1].end = M.len /\ frames[1].left # 0
  BY DEF ItemsRead, Frame, Unbounded
<1>4. CASE i = M.good
  <2>1. ~Fits(frames[1], Here)
    BY <1>1, <1>2, <1>3, <1>4, EndFitsNot DEF TreeReading
  <2> QED
    BY <1>1, <1>4, <2>1 DEF Reading
<1> DEFINE place == Place(M, i + 1)
<1>5. CASE i < M.good
  <2>1. i + 1 \in 1 .. M.good /\ (i + 1) + 1 = i + 2
    BY <1>2, <1>5
  <2>2. /\ place \in 1 .. Len(Row(M)) /\ Row(M)[place] = item
        /\ Place(M, i + 2) = place + 1 + Len(item.members)
        /\ Place(M, i + 2) \in 1 .. Len(Row(M)) + 1
    <3>1. LaidOut(M)
      BY <1>2
    <3> QED
      BY <1>5, <3>1, NextPlace
  <2>3. StartOf(M, Place(M, i + 2)) \in Nat /\ StartOf(M, Place(M, i + 2)) <= M.len
    BY <1>1, <2>2, RowInside DEF TreeReading
  <2>4. CASE item.type # MQCFT_GROUP
    <3>1. /\ Here = Own(item) /\ Here.length \in Nat /\ Here.length >= 16
          /\ offset + Here.length = StartOf(M, place + 1)
      <4>1. /\ At(M, StartOf(M, place)) = Own(item) /\ Own(item).length \in Nat
            /\ Own(item).length >= 16
            /\ StartOf(M, place) + Own(item).length = StartOf(M, place + 1)
        <5>1. LaidOut(M) /\ place \in 1 .. Len(Row(M)) /\ item = Row(M)[place]
          BY <1>2, <2>2
        <5> HIDE DEF place
        <5> QED
          BY <2>4, <5>1, PlainAt
      <4> QED
        BY <4>1 DEF Here
    <3>2. item.members = <<>>
      BY <1>2, <2>1, <2>4 DEF LaidOut
    <3>3. Place(M, i + 2) = place + 1
      BY <2>2, <3>2
    <3>4. Fits(frames[1], Here)
      BY <1>1, <1>3, <2>3, <3>1, <3>3, RoomFits
    <3>5. Reads(input.reader, Here, Room) = Leaf(input.reader, item)
      <4>1. StartOf(M, place + 1) <= frames[1].end
        BY <1>3, <2>3, <3>3
      <4> HIDE DEF place
      <4> QED
        BY <2>2, <3>1, <4>1, ReadsHere DEF place
    <3> QED
      BY <1>1, <1>5, <2>4, <3>1, <3>3, <3>4, <3>5 DEF Reading, TreeReading
  <2>5. CASE item.type = MQCFT_GROUP
    <3>1. /\ Here.type = MQCFT_GROUP /\ Here.id = item.id /\ Here.count = Len(item.members)
          /\ offset + 16 = StartOf(M, place + 1)
          /\ M.layout = "following" => Here.length = 16
          /\ M.layout = "nested" => offset + Here.length = StartOf(M, Place(M, i + 2))
      <4>1. ASSUME NEW q, q = i + 1, NEW s, s = Here
            PROVE  /\ s.type = MQCFT_GROUP /\ s.id = item.id /\ s.count = Len(item.members)
                   /\ StartOf(M, Place(M, q)) + 16 = StartOf(M, Place(M, q) + 1)
                   /\ M.layout = "following" => s.length = 16
                   /\ M.layout = "nested" =>
                        StartOf(M, Place(M, q)) + s.length = StartOf(M, Place(M, q + 1))
        <5>1. /\ LaidOut(M) /\ q \in 1 .. M.good /\ item = M.items[q]
              /\ s = At(M, StartOf(M, Place(M, q)))
          BY <1>2, <2>1, <4>1 DEF Here
        <5> QED
          BY <2>5, <5>1, GroupAt
      <4> QED
        BY <2>1, <4>1
    <3>2. place + 1 \in 1 .. Len(Row(M)) + 1 /\ place + 1 <= Place(M, i + 2)
      <4>1. ASSUME NEW n, n = Len(Row(M)), NEW l, l = Len(item.members)
            PROVE  place + 1 \in 1 .. n + 1 /\ place + 1 <= place + 1 + l
        <5>1. place \in 1 .. n /\ n \in Nat /\ l \in Nat
          BY <1>2, <2>1, <2>2, <4>1, RowFacts, ItemPlace
        <5> QED
          BY <5>1
      <4> QED
        BY <2>2, <4>1
    <3>3. StartOf(M, place + 1) <= M.len /\ StartOf(M, place + 1) <= StartOf(M, Place(M, i + 2))
      BY <1>1, <2>2, <3>2, RowInside DEF TreeReading
    <3>4. HasGroups(M)
      BY <1>2, <2>1, <2>5 DEF HasGroups
    <3>5. M.layout \in {"following", "nested"} /\ (input.reader = "parser" => M.layout = "nested")
      BY <1>2, <3>4 DEF LaidOut, TreeReading, Meant
    <3>6. Here.length \in Nat /\ Here.length >= 16 /\ offset + Here.length <= M.len
      BY <1>1, <2>3, <3>1, <3>3, <3>5
    <3>7. Fits(frames[1], Here)
      BY <1>1, <1>3, <3>6, RoomFits
    <3> QED
      BY <1>1, <1>5, <2>5, <3>1, <3>5, <3>6, <3>7 DEF Reading, TreeReading
  <2> QED
    BY <2>4, <2>5
<1>6. i < M.good \/ i = M.good
  BY <1>2
<1> QED
  BY <1>4, <1>5, <1>6

\* The loop over a group stands before its next member, or has come to its end.
LEMMA MemberNext ==
  ASSUME TreeReading, NEW i \in 0 .. M.good, i < M.good,
         NEW j \in 0 .. Len(M.items[i + 1].members), MembersRead(i, j, frames[1]),
         NEW group, group = M.items[i + 1]
  PROVE  /\ j = Len(group.members) => ~Reading /\ offset = StartOf(M, Place(M, i + 2))
         /\ j # Len(group.members) =>
              /\ Reading /\ Here = Own(group.members[j + 1]) /\ Here.type # MQCFT_GROUP
              /\ Reads(input.reader, Here, Room) = Leaf(input.reader, group.members[j + 1])
              /\ j + 1 \in 0 .. Len(group.members)
              /\ offset + Here.length = StartOf(M, Place(M, i + 1) + 1 + (j + 1))
<1>1. /\ k \in Nat /\ k <= LastMessage /\ Head(frames) = frames[1]
      /\ M.len \in Nat /\ offset \in Nat /\ Here.length \in Int
  BY Innermost DEF TreeReading
<1>2. LaidOut(M) /\ M.good \in Nat /\ i + 1 \in 1 .. M.good /\ (i + 1) + 1 = i + 2
  <2>1. LaidOut(M)
    BY <1>1, Under DEF TreeReading
  <2> QED
    BY <2>1, RowFacts
<1> DEFINE place == Place(M, i + 1)
           l == Len(group.members)
<1>3. /\ place \in 1 .. Len(Row(M)) /\ Len(Row(M)) \in Nat
      /\ Place(M, i + 2) = place + 1 + l /\ Place(M, i + 2) \in 1 .. Len(Row(M)) + 1
      /\ l \in Nat
      /\ \A x \in 1 .. l :
           /\ place + x \in 1 .. Len(Row(M)) /\ Row(M)[place + x] = group.members[x]
           /\ group.members[x].type # MQCFT_GROUP
  <2>1. /\ place \in 1 .. Len(Row(M)) /\ Len(Row(M)) \in Nat
        /\ Place(M, i + 2) = place + 1 + l /\ Place(M, i + 2) \in 1 .. Len(Row(M)) + 1
        /\ l \in Nat
    <3>1. LaidOut(M)
      BY <1>2
    <3> QED
      BY <3>1, NextPlace
  <2>2. ASSUME NEW x \in 1 .. l
        PROVE  /\ place + x \in 1 .. Len(Row(M)) /\ Row(M)[place + x] = group.members[x]
               /\ group.members[x].type # MQCFT_GROUP
    <3>1. ASSUME NEW q, q = i + 1, NEW p, p = place
          PROVE  /\ p + x \in 1 .. Len(Row(M)) /\ Row(M)[p + x] = group.members[x]
                 /\ group.members[x].type # MQCFT_GROUP
      <4>1. /\ LaidOut(M) /\ q \in 1 .. M.good /\ group = M.items[q] /\ p = Place(M, q)
            /\ x \in 1 .. Len(group.members)
        BY <1>2, <2>2, <3>1
      <4> QED
        BY <4>1, MemberPlace
    <3> QED
      BY <3>1
  <2> QED
    BY <2>1, <2>2
<1>4. StartOf(M, Place(M, i + 2)) \in Nat /\ StartOf(M, Place(M, i + 2)) <= M.len
  BY <1>1, <1>3, RowInside DEF TreeReading
<1>5. /\ offset = StartOf(M, place + 1 + j) /\ j \in 0 .. l
      /\ input.reader = "parser" => frames[1].end = StartOf(M, Place(M, i + 2))
                                     /\ frames[1].left = Unbounded
      /\ input.reader # "parser" => frames[1].end = M.len /\ frames[1].left = l - j
  BY DEF MembersRead, Frame
<1> HIDE DEF place, l
<1>6. CASE j = l
  <2>1. offset = StartOf(M, Place(M, i + 2))
    BY <1>3, <1>5, <1>6
  <2>2. ~Fits(frames[1], Here)
    <3>1. CASE input.reader = "parser"
      BY <1>1, <1>5, <2>1, <3>1 DEF Fits, HeadBytes
    <3>2. CASE input.reader # "parser"
      BY <1>3, <1>5, <1>6, <3>2 DEF Fits
    <3> QED
      BY <3>1, <3>2
  <2> QED
    BY <1>1, <1>6, <2>1, <2>2 DEF Reading, l
<1>7. CASE j # l
  <2>1. j + 1 \in 1 .. l /\ j + 1 \in 0 .. l /\ place + (j + 1) = place + 1 + j
    <3>1. place \in Nat /\ l \in Nat /\ j \in 0 .. l
      BY <1>3, <1>5
    <3> QED
      BY <1>7, <3>1
  <2> DEFINE r == place + (j + 1)
             item == group.members[j + 1]
  <2>2. r \in 1 .. Len(Row(M)) /\ Row(M)[r] = item /\ item.type # MQCFT_GROUP
        /\ offset = StartOf(M, r)
    BY <1>3, <1>5, <2>1
  <2>3. /\ Here = Own(item) /\ Here.length \in Nat /\ Here.length >= 16
        /\ offset + Here.length = StartOf(M, r + 1)
    BY <1>2, <2>2, PlainAt DEF Here
  <2>4. r + 1 = place + 1 + (j + 1) /\ r + 1 <= Place(M, i + 2) /\ r + 1 \in 1 .. Len(Row(M)) + 1
    <3>1. ASSUME NEW n, n = Len(Row(M))
          PROVE  /\ r + 1 = place + 1 + (j + 1) /\ r + 1 <= place + 1 + l
                 /\ r + 1 \in 1 .. n + 1
      <4>1. place \in 1 .. n /\ n \in Nat /\ l \in Nat /\ j + 1 \in 1 .. l /\ r \in 1 .. n
            /\ j \in Nat
        BY <1>3, <1>5, <2>1, <2>2, <3>1
      <4> QED
        BY <4>1
    <3> QED
      BY <1>3, <3>1
  <2>5. StartOf(M, r + 1) \in Nat /\ StartOf(M, r + 1) <= StartOf(M, Place(M, i + 2))
    BY <1>1, <1>3, <2>4, RowInside DEF TreeReading
  <2>6. frames[1].end \in Nat /\ offset + Here.length <= frames[1].end /\ frames[1].left # 0
    <3>1. CASE input.reader = "parser"
      BY <1>4, <1>5, <2>3, <2>5, <3>1 DEF Unbounded
    <3>2. CASE input.reader # "parser"
      <4>1. l - j # 0
        BY <1>3, <1>5, <1>7
      <4>2. StartOf(M, r + 1) <= M.len
        BY <1>1, <1>4, <2>5
      <4> QED
        BY <1>1, <1>5, <2>3, <3>2, <4>1, <4>2
    <3> QED
      BY <3>1, <3>2
  <2>7. Fits(frames[1], Here)
    BY <1>1, <2>3, <2>6, RoomFits
  <2>8. Here.type = item.type
    BY <2>3 DEF Own, Structure
  <2>10. Reads(input.reader, Here, Room) = Leaf(input.reader, item)
    <3>1. StartOf(M, r + 1) <= frames[1].end
      BY <2>3, <2>6
    <3> HIDE DEF r, item
    <3> QED
      BY <2>2, <2>3, <3>1, ReadsHere
  <2> HIDE DEF r
  <2>9. offset + Here.length = StartOf(M, place + 1 + (j + 1))
    BY <2>3, <2>4
  <2> QED
    BY <1>1, <1>7, <2>1, <2>2, <2>3, <2>7, <2>8, <2>9, <2>10
       DEF Reading, TreeReading, place, l
<1> QED
  BY <1>6, <1>7

\* The outer loop that has read i items keeps the invariant.
LEMMA ItemsKept ==
  ASSUME UNCHANGED <<input, k>>, Len(frames') = 1, NEW i \in 0 .. M.good,
         ItemsRead(i, frames'[1]), offset' = StartOf(M, Place(M, i + 1))
  PROVE  TreeInv'
<1>1. M' = M
  BY SameMessage
<1>2. ItemsRead(i, frames[1])'
  BY <1>1 DEF ItemsRead
<1> QED
  BY <1>1, <1>2 DEF TreeInv

\* So does the loop over a group that has read j members.
LEMMA MembersKept ==
  ASSUME UNCHANGED <<input, k>>, Len(frames') = 2, NEW i \in 0 .. M.good,
         ItemsRead(i, frames'[2]), NEW j \in 0 .. Len(M.items[i + 1].members),
         NEW group, group = M.items[i + 1], i < M.good, group.type = MQCFT_GROUP,
         offset' = StartOf(M, Place(M, i + 1) + 1 + j),
         input.reader = "parser" =>
           frames'[1] = Frame(group.id, StartOf(M, Place(M, i + 2)), Unbounded,
                              [x \in 1 .. j |-> Leaf("parser", group.members[x])]),
         input.reader # "parser" =>
           frames'[1] = Frame(group.id, M.len, Len(group.members) - j,
                              [x \in 1 .. j |-> Leaf("monitor", group.members[x])])
  PROVE  TreeInv'
<1>1. M' = M
  BY SameMessage
<1>2. ItemsRead(i, frames[2])'
  BY <1>1 DEF ItemsRead
<1>3. MembersRead(i, j, frames[1])'
  BY <1>1 DEF MembersRead
<1> QED
  BY <1>1, <1>2, <1>3 DEF TreeInv

\* A loop that has read i items reads one more.
LEMMA ItemTaken ==
  ASSUME NEW f, NEW i \in Nat, ItemsRead(i, f), NEW p,
         p = Tree(input.reader, M.items[i + 1])
  PROVE  ItemsRead(i + 1, Taken(f, p))
<1>1. Trees(input.reader, M.items, i + 1) = Append(Trees(input.reader, M.items, i), p)
  BY TreesNext
<1>2. ASSUME NEW ts, ts = Trees(input.reader, M.items, i)
      PROVE  Taken(f, p) = Frame(0, M.len, Unbounded, Append(ts, p))
  BY <1>2, TakenFrame DEF ItemsRead
<1> QED
  BY <1>1, <1>2 DEF ItemsRead

\* A parameter that is read in the outer loop or in that of a group.
LEMMA TreeReads ==
  ASSUME TreeReading, TreeInv, ReadParam
  PROVE  TreeInv'
<1>1. /\ Reading /\ UNCHANGED <<input, k>> /\ offset' = offset + Here.length
      /\ ~EntersGroup(Here) /\ IsSequence(frames) /\ frames # <<>>
      /\ Head(frames) = frames[1]
  BY PopProperties DEF ReadParam, TreeReading, IInv
<1> DEFINE f == Taken(frames[1], Reads(input.reader, Here, Room))
<1>2. /\ Len(frames') = Len(frames) /\ frames'[1] = f
      /\ Len(frames) = 2 => frames'[2] = frames[2]
  <2>1. frames' = <<f>> \o Tail(frames)
    BY <1>1 DEF ReadParam
  <2>2. /\ IsSequence(Tail(frames)) /\ Len(Tail(frames)) = Len(frames) - 1
        /\ Len(frames) \in Nat
        /\ \A x \in 1 .. Len(frames) - 1 : Tail(frames)[x] = frames[x + 1]
    BY <1>1, PopProperties
  <2> HIDE DEF f
  <2>3. ASSUME NEW t, t = Tail(frames)
        PROVE  /\ Len(<<f>> \o t) = Len(t) + 1 /\ (<<f>> \o t)[1] = f
               /\ \A x \in 1 .. Len(t) : (<<f>> \o t)[x + 1] = t[x]
    BY <2>2, <2>3, PushProperties
  <2>4. Len(frames) = 2 => frames'[2] = Tail(frames)[1] /\ Tail(frames)[1] = frames[2]
    BY <2>1, <2>2, <2>3
  <2> QED
    BY <2>1, <2>2, <2>3, <2>4
<1>3. LaidOut(M) /\ M.good \in Nat
  BY Innermost, Under, RowFacts DEF TreeReading
<1>4. PICK i \in 0 .. M.good :
        \/ /\ Len(frames) = 1 /\ ItemsRead(i, frames[1])
           /\ offset = StartOf(M, Place(M, i + 1))
        \/ /\ Len(frames) = 2 /\ ItemsRead(i, frames[2])
           /\ \E j \in 0 .. Len(M.items[i + 1].members) : MembersRead(i, j, frames[1])
  BY DEF TreeReading, TreeInv, RowReader
<1>5. CASE /\ Len(frames) = 1 /\ ItemsRead(i, frames[1])
           /\ offset = StartOf(M, Place(M, i + 1))
  <2> DEFINE item == M.items[i + 1]
  <2>1. i # M.good /\ i < M.good /\ i + 1 \in 0 .. M.good /\ (i + 1) + 1 = i + 2 /\ i \in Nat
    BY <1>1, <1>3, <1>5, ItemNext
  <2>2. item.type # MQCFT_GROUP
    <3>1. SUFFICES ASSUME item.type = MQCFT_GROUP PROVE FALSE
      OBVIOUS
    <3>2. Here.type = MQCFT_GROUP /\ Here.length >= 16
      BY <1>5, <2>1, <3>1, ItemNext
    <3> QED
      BY <1>1, <1>5, <3>2 DEF EntersGroup, TreeReading, RowReader
  <2>3. Here = Own(item) /\ offset + Here.length = StartOf(M, Place(M, i + 2))
    BY <1>5, <2>1, <2>2, ItemNext
  <2>4. Reads(input.reader, Here, Room) = Tree(input.reader, item)
    BY <1>5, <2>1, <2>2, ItemNext DEF Tree
  <2>5. ItemsRead(i + 1, f)
    BY <1>5, <2>1, <2>4, ItemTaken
  <2> HIDE DEF f
  <2> QED
    BY <1>1, <1>2, <1>5, <2>1, <2>3, <2>5, ItemsKept
<1>6. CASE /\ Len(frames) = 2 /\ ItemsRead(i, frames[2])
           /\ \E j \in 0 .. Len(M.items[i + 1].members) : MembersRead(i, j, frames[1])
  <2>1. PICK j \in 0 .. Len(M.items[i + 1].members) : MembersRead(i, j, frames[1])
    BY <1>6
  <2> DEFINE group == M.items[i + 1]
  <2>2. i < M.good /\ group.type = MQCFT_GROUP
    BY <2>1 DEF MembersRead
  <2>3. j # Len(group.members) /\ j \in Nat
    BY <1>1, <2>1, <2>2, MemberNext
  <2>4. /\ Here = Own(group.members[j + 1]) /\ j + 1 \in 0 .. Len(group.members)
        /\ offset + Here.length = StartOf(M, Place(M, i + 1) + 1 + (j + 1))
    BY <2>1, <2>2, <2>3, MemberNext
  <2>5. Reads(input.reader, Here, Room) = Leaf(input.reader, group.members[j + 1])
    BY <2>1, <2>2, <2>3, MemberNext
  <2> DEFINE read(x) == [y \in 1 .. x |-> Leaf(input.reader, group.members[y])]
  <2>6. read(j + 1) = Append(read(j), Leaf(input.reader, group.members[j + 1]))
    BY <2>3, LeavesNext
  <2> HIDE DEF read
  <2>7. ASSUME input.reader = "parser"
        PROVE  f = Frame(group.id, StartOf(M, Place(M, i + 2)), Unbounded, read(j + 1))
    <3>1. frames[1] = Frame(group.id, StartOf(M, Place(M, i + 2)), Unbounded, read(j))
      BY <2>1, <2>7 DEF MembersRead, read
    <3>2. ASSUME NEW p, p = Leaf(input.reader, group.members[j + 1]),
                 NEW end, end = StartOf(M, Place(M, i + 2))
          PROVE  Taken(frames[1], p) = Frame(group.id, end, Unbounded, Append(read(j), p))
      BY <3>1, <3>2, TakenFrame
    <3> QED
      BY <2>5, <2>6, <3>2
  <2>8. ASSUME input.reader # "parser"
        PROVE  f = Frame(group.id, M.len, Len(group.members) - (j + 1), read(j + 1))
    <3>1. frames[1] = Frame(group.id, M.len, Len(group.members) - j, read(j))
      BY <2>1, <2>8 DEF MembersRead, read, TreeReading, RowReader
    <3>2. ASSUME NEW l, l = Len(group.members)
          PROVE  l - j # Unbounded /\ (l - j) - 1 = l - (j + 1)
      <4>1. l \in Nat /\ j \in 0 .. l
        <5>1. i + 1 \in 1 .. M.good
          BY <1>3, <2>2
        <5> QED
          BY <1>3, <2>1, <3>2, <5>1, ItemPlace
      <4> QED
        BY <4>1 DEF Unbounded
    <3>3. ASSUME NEW p, p = Leaf(input.reader, group.members[j + 1])
          PROVE  Taken(frames[1], p) =
                   Frame(group.id, M.len, Len(group.members) - (j + 1), Append(read(j), p))
      <4>1. ASSUME NEW left, left = Len(group.members) - j
            PROVE  Taken(frames[1], p) = Frame(group.id, M.len, left - 1, Append(read(j), p))
        <5>1. left # Unbounded /\ frames[1] = Frame(group.id, M.len, left, read(j))
          BY <3>1, <3>2, <4>1
        <5> HIDE DEF group
        <5> QED
          BY <5>1, TakenFrame
      <4> QED
        BY <3>2, <4>1
    <3> QED
      BY <2>5, <2>6, <3>3
  <2>9. ItemsRead(i, frames'[2])
    BY <1>2, <1>6
  <2>10. /\ input.reader = "parser" =>
              frames'[1] = Frame(group.id, StartOf(M, Place(M, i + 2)), Unbounded,
                                 [x \in 1 .. j + 1 |-> Leaf("parser", group.members[x])])
         /\ input.reader # "parser" =>
              frames'[1] = Frame(group.id, M.len, Len(group.members) - (j + 1),
                                 [x \in 1 .. j + 1 |-> Leaf("monitor", group.members[x])])
    <3> HIDE DEF f
    <3> QED
      BY <1>2, <2>7, <2>8 DEF read, TreeReading, RowReader
  <2>11. offset' = StartOf(M, Place(M, i + 1) + 1 + (j + 1)) /\ Len(frames') = 2
    BY <1>1, <1>2, <1>6, <2>4
  <2> QED
    BY <1>1, <2>2, <2>4, <2>9, <2>10, <2>11, MembersKept
<1> QED
  BY <1>4, <1>5, <1>6

\* A group is entered from the outer loop, before its first member.
LEMMA TreeEnters ==
  ASSUME TreeReading, TreeInv, EnterGroup
  PROVE  TreeInv'
<1>1. /\ Reading /\ UNCHANGED <<input, k>> /\ offset' = offset + 16
      /\ Here.type = MQCFT_GROUP /\ IsSequence(frames) /\ frames # <<>>
      /\ Head(frames) = frames[1]
  BY PopProperties DEF EnterGroup, EntersGroup, TreeReading, IInv
<1>2. LaidOut(M) /\ M.good \in Nat
  BY Innermost, Under, RowFacts DEF TreeReading
<1>3. PICK i \in 0 .. M.good :
        \/ /\ Len(frames) = 1 /\ ItemsRead(i, frames[1])
           /\ offset = StartOf(M, Place(M, i + 1))
        \/ /\ Len(frames) = 2 /\ ItemsRead(i, frames[2])
           /\ \E j \in 0 .. Len(M.items[i + 1].members) : MembersRead(i, j, frames[1])
  BY DEF TreeReading, TreeInv, RowReader
<1>4. CASE /\ Len(frames) = 2 /\ ItemsRead(i, frames[2])
           /\ \E j \in 0 .. Len(M.items[i + 1].members) : MembersRead(i, j, frames[1])
  <2>1. PICK j \in 0 .. Len(M.items[i + 1].members) : MembersRead(i, j, frames[1])
    BY <1>4
  <2>2. i < M.good
    BY <2>1 DEF MembersRead
  <2> QED
    BY <1>1, <2>1, <2>2, MemberNext
<1>5. CASE /\ Len(frames) = 1 /\ ItemsRead(i, frames[1])
           /\ offset = StartOf(M, Place(M, i + 1))
  <2> DEFINE group == M.items[i + 1]
  <2>1. i < M.good
    BY <1>1, <1>2, <1>5, ItemNext
  <2>2. group.type = MQCFT_GROUP
    <3>1. SUFFICES ASSUME group.type # MQCFT_GROUP PROVE FALSE
      OBVIOUS
    <3>2. Here = Own(group)
      BY <1>5, <2>1, <3>1, ItemNext
    <3> QED
      BY <1>1, <3>1, <3>2 DEF Own, Structure
  <2>3. /\ Here.id = group.id /\ Here.count = Len(group.members)
        /\ offset + 16 = StartOf(M, Place(M, i + 1) + 1)
        /\ input.reader = "parser" => offset + Here.length = StartOf(M, Place(M, i + 2))
    BY <1>5, <2>1, <2>2, ItemNext
  <2>4. /\ Len(group.members) \in Nat
        /\ Place(M, i + 1) + 1 + 0 = Place(M, i + 1) + 1
    <3>1. i + 1 \in 1 .. M.good
      BY <1>2, <2>1
    <3>2. Len(group.members) \in Nat /\ Place(M, i + 1) \in 1 .. Len(Row(M)) /\ Len(Row(M)) \in Nat
      BY <1>2, <3>1, ItemPlace, RowFacts
    <3> QED
      BY <3>2
  <2>5. 0 \in 0 .. Len(group.members) /\ Len(group.members) - 0 = Len(group.members)
    BY <2>4
  <2> DEFINE f == IF input.reader = "parser"
                    THEN Frame(Here.id, offset + Here.length, Unbounded, <<>>)
                    ELSE Frame(Here.id, Head(frames).end,
                               IF Here.count > 0 THEN Here.count ELSE 0, <<>>)
  <2>6. Len(frames') = 2 /\ frames'[1] = f /\ frames'[2] = frames[1]
    <3>1. frames' = <<f>> \o frames
      BY DEF EnterGroup
    <3> HIDE DEF f
    <3>2. /\ Len(<<f>> \o frames) = Len(frames) + 1 /\ (<<f>> \o frames)[1] = f
          /\ \A x \in 1 .. Len(frames) : (<<f>> \o frames)[x + 1] = frames[x]
      BY <1>1, PushProperties
    <3>3. 1 \in 1 .. Len(frames) /\ 1 + 1 = 2
      BY <1>5
    <3>4. (<<f>> \o frames)[2] = frames[1]
      BY <3>2, <3>3
    <3> QED
      BY <1>5, <3>1, <3>2, <3>4
  <2>7. frames[1].end = M.len
    BY <1>5 DEF ItemsRead, Frame
  <2>8. /\ input.reader = "parser" =>
             f = Frame(group.id, StartOf(M, Place(M, i + 2)), Unbounded, <<>>)
        /\ input.reader # "parser" =>
             f = Frame(group.id, M.len, Len(group.members) - 0, <<>>)
    BY <1>1, <2>3, <2>4, <2>5, <2>7
  <2> HIDE DEF f
  <2>9. \A reader : [x \in 1 .. 0 |-> Leaf(reader, group.members[x])] = <<>>
    OBVIOUS
  <2>10. /\ input.reader = "parser" =>
              frames'[1] = Frame(group.id, StartOf(M, Place(M, i + 2)), Unbounded,
                                 [x \in 1 .. 0 |-> Leaf("parser", group.members[x])])
         /\ input.reader # "parser" =>
              frames'[1] = Frame(group.id, M.len, Len(group.members) - 0,
                                 [x \in 1 .. 0 |-> Leaf("monitor", group.members[x])])
    BY <2>6, <2>8, <2>9
  <2>11. ItemsRead(i, frames'[2]) /\ offset' = StartOf(M, Place(M, i + 1) + 1 + 0)
    BY <1>1, <1>5, <2>3, <2>4, <2>6
  <2> QED
    BY <1>1, <2>1, <2>2, <2>5, <2>6, <2>10, <2>11, MembersKept
<1> QED
  BY <1>3, <1>4, <1>5

\* A group is left after its last member, and the outer loop has it.
LEMMA TreeLeaves ==
  ASSUME TreeReading, TreeInv, LeaveGroup
  PROVE  TreeInv'
<1>1. /\ ~Reading /\ UNCHANGED <<input, k>> /\ Len(frames) > 1
      /\ offset' = IF input.reader = "parser" THEN frames[1].end ELSE offset
      /\ IsSequence(frames) /\ frames # <<>> /\ Head(frames) = frames[1]
  BY PopProperties DEF LeaveGroup, TreeReading, IInv
<1>2. LaidOut(M) /\ M.good \in Nat
  BY Innermost, Under, RowFacts DEF TreeReading
<1>3. PICK i \in 0 .. M.good :
        /\ Len(frames) = 2 /\ ItemsRead(i, frames[2])
        /\ \E j \in 0 .. Len(M.items[i + 1].members) : MembersRead(i, j, frames[1])
  BY <1>1 DEF TreeReading, TreeInv, RowReader
<1>4. PICK j \in 0 .. Len(M.items[i + 1].members) : MembersRead(i, j, frames[1])
  BY <1>3
<1> DEFINE group == M.items[i + 1]
<1>5. i < M.good /\ group.type = MQCFT_GROUP
  BY <1>4 DEF MembersRead
<1>6. j = Len(group.members) /\ offset = StartOf(M, Place(M, i + 2))
  BY <1>1, <1>4, <1>5, MemberNext
<1>7. i \in Nat /\ i + 1 \in 0 .. M.good /\ i + 1 \in 1 .. M.good /\ (i + 1) + 1 = i + 2
  BY <1>2, <1>5
<1> DEFINE p == Param(MQCFT_GROUP, frames[1].id, <<>>, frames[1].params)
           f == Taken(frames[2], p)
<1>8. p = Tree(input.reader, group)
  <2>1. DOMAIN group.members = 1 .. Len(group.members)
    BY <1>2, <1>7, ItemPlace
  <2> DEFINE leaves == [x \in 1 .. Len(group.members) |-> Leaf(input.reader, group.members[x])]
  <2>2. frames[1].id = group.id /\ frames[1].params = leaves
    <3> DEFINE first(x) == [y \in 1 .. x |-> Leaf(input.reader, group.members[y])]
    <3>1. frames[1].id = group.id /\ frames[1].params = first(j)
      BY <1>4 DEF MembersRead, Frame, TreeReading, RowReader
    <3>2. first(j) = leaves
      BY <1>6
    <3> QED
      BY <3>1, <3>2
  <2>3. Tree(input.reader, group) = Param(MQCFT_GROUP, group.id, <<>>, leaves)
    BY <1>5, <2>1 DEF Tree
  <2> HIDE DEF leaves
  <2> QED
    BY <2>2, <2>3
<1>9. ItemsRead(i + 1, f)
  <2> HIDE DEF p
  <2> QED
    BY <1>3, <1>7, <1>8, ItemTaken
<1>10. offset' = StartOf(M, Place(M, i + 2))
  <2>1. input.reader = "parser" => frames[1].end = StartOf(M, Place(M, i + 2))
    BY <1>4 DEF MembersRead, Frame
  <2> QED
    BY <1>1, <1>6, <2>1
<1>11. Len(frames') = 1 /\ frames'[1] = f
  <2>1. frames' = <<f>> \o Tail(Tail(frames))
    BY <1>1 DEF LeaveGroup
  <2>2. IsSequence(Tail(Tail(frames))) /\ Len(Tail(Tail(frames))) = 0
    <3>1. Len(frames) = 2
      BY <1>3
    <3>2. IsSequence(Tail(Tail(frames))) /\ Len(Tail(Tail(frames))) = Len(frames) - 2
      BY <1>1, PopTwice
    <3> QED
      BY <3>1, <3>2
  <2> HIDE DEF f
  <2>3. ASSUME NEW t, t = Tail(Tail(frames))
        PROVE  Len(<<f>> \o t) = Len(t) + 1 /\ (<<f>> \o t)[1] = f
    BY <2>2, <2>3, PushProperties
  <2> QED
    BY <2>1, <2>2, <2>3
<1> HIDE DEF f
<1> QED
  BY <1>1, <1>7, <1>9, <1>10, <1>11, ItemsKept

\* Every step keeps what the parser and the monitor have read.
LEMMA TreeStep ==
  ASSUME IInv, TreeInv, [Next]_vars
  PROVE  TreeInv'
<1> SUFFICES ASSUME frames' # <<>>, Meant(M)', ~RowReader' PROVE TreeInv'
  BY DEF TreeInv, RowReader
<1>1. CASE StartMessage
  <2> DEFINE f == Frame(0, M.len, IF input.reader = "server" THEN M.count ELSE Unbounded, <<>>)
  <2>1. /\ UNCHANGED <<input, k>> /\ frames' = <<f>> /\ ~Done
        /\ offset' = FirstOffset /\ Readable(M)
    BY <1>1 DEF StartMessage
  <2>2. k <= LastMessage
    <3>1. Len(input.msgs) \in Nat
      BY InputsAssumption DEF IInv, IsSequence
    <3> QED
      BY <2>1, <3>1 DEF IInv, TypeOK, LastMessage, Done
  <2>3. /\ LaidOut(M) /\ Place(M, 0 + 1) = 1 /\ StartOf(M, 1) = HeaderSize
        /\ 0 \in 0 .. M.good
    <3>1. LaidOut(M)
      BY <2>1, SameMessage DEF Meant
    <3> QED
      BY <3>1, RowFacts
  <2>9. offset' = HeaderSize
    <3>1. M.header = HeaderSize
      BY <2>3 DEF LaidOut
    <3> QED
      BY <2>1, <3>1 DEF FirstOffset
  <2>4. ~RowReader
    BY <2>1 DEF RowReader
  <2>5. Trees(input.reader, M.items, 0) = <<>>
    BY DEF Trees
  <2>6. f = Frame(0, M.len, Unbounded, <<>>)
    BY <2>4 DEF RowReader
  <2> HIDE DEF f
  <2>7. ItemsRead(0, f)
    BY <2>5, <2>6 DEF ItemsRead
  <2>8. Len(frames') = 1 /\ frames'[1] = f
    BY <2>1
  <2> QED
    BY <2>1, <2>3, <2>7, <2>8, <2>9, ItemsKept
<1>2. CASE PassMessage \/ EndMessage
  BY <1>2 DEF PassMessage, EndMessage, Returns
<1>3. CASE UNCHANGED vars
  <2>1. M' = M
    BY <1>3, SameMessage DEF vars
  <2> QED
    BY <1>3, <2>1 DEF TreeInv, ItemsRead, MembersRead, vars, Meant, Readable
<1>4. ASSUME ReadParam \/ SkipQueue \/ EnterGroup \/ LeaveGroup
      PROVE  TreeReading
  <2>1. UNCHANGED <<input, k>>
    BY <1>4 DEF ReadParam, SkipQueue, EnterGroup, LeaveGroup
  <2>2. frames # <<>>
    BY <1>4 DEF ReadParam, SkipQueue, EnterGroup, LeaveGroup, Reading
  <2> QED
    BY <2>1, <2>2, SameMessage DEF TreeReading, RowReader
<1>5. CASE ReadParam
  BY <1>4, <1>5, TreeReads
<1>6. CASE SkipQueue
  BY <1>4, <1>6 DEF SkipQueue, Skips, TreeReading, RowReader
<1>7. CASE EnterGroup
  BY <1>4, <1>7, TreeEnters
<1>8. CASE LeaveGroup
  BY <1>4, <1>8, TreeLeaves
<1> QED
  BY <1>1, <1>2, <1>3, <1>5, <1>6, <1>7, <1>8 DEF Next, Decode, Finished

-----------------------------------------------------------------------------
(* What the loops return.                                                  *)

\* That these are the parameters the reader is to make of a message.
ReadAsSent(params, m) ==
    IF RowReader THEN Listed(params, input.reader, Row(m), Len(Row(m)))
                 ELSE params = Trees(input.reader, m.items, m.good)

\* A message that is done with has one result, and those before keep theirs.
LEMMA OneMore ==
  ASSUME IInv, NEW params, Returns(params)
  PROVE  /\ input' = input /\ decoded'[k] = params
         /\ \A i \in DOMAIN decoded' :
              i = k \/ (i \in DOMAIN decoded /\ decoded'[i] = decoded[i])
<1>1. decoded' = Append(decoded, params) /\ input' = input
  BY DEF Returns
<1>2. /\ Len(decoded) = k - 1 /\ k \in Nat /\ IsSequence(decoded)
      /\ Len(decoded) \in Nat /\ DOMAIN decoded = 1 .. Len(decoded)
  <2>1. Len(decoded) = k - 1 /\ IsSequence(decoded) /\ k \in 1 .. LastMessage + 1
    BY DEF IInv, TypeOK
  <2> QED
    BY <2>1 DEF IsSequence
<1>3. /\ IsSequence(decoded') /\ Len(decoded') = k
      /\ decoded'[k] = params
      /\ \A i \in 1 .. k - 1 : decoded'[i] = decoded[i]
  <2> DEFINE S == {decoded[i] : i \in DOMAIN decoded} \cup {params}
  <2>1. decoded \in Seq(S) /\ params \in S
    BY <1>2 DEF IsSequence
  <2>2. IsSequence(Append(decoded, params)) /\ Len(Append(decoded, params)) = Len(decoded) + 1
    BY <1>2, AppendKeeps
  <2> HIDE DEF S
  <2>3. /\ Append(decoded, params)[Len(decoded) + 1] = params
        /\ \A i \in 1 .. Len(decoded) : Append(decoded, params)[i] = decoded[i]
    BY <2>1
  <2>4. Len(decoded) + 1 = k
    BY <1>2
  <2> QED
    BY <1>1, <1>2, <2>2, <2>3, <2>4
<1>4. DOMAIN decoded' = 1 .. k
  BY <1>3 DEF IsSequence
<1>5. ASSUME NEW i \in DOMAIN decoded', i # k
      PROVE  i \in 1 .. k - 1 /\ i \in DOMAIN decoded
  BY <1>2, <1>4, <1>5
<1> QED
  BY <1>1, <1>3, <1>5

\* What is returned for the message that is read is what was sent in it, and what
\* was returned for those before stays.
LEMMA Returned ==
  ASSUME IInv, DecodesWhatWasSent, NEW params, Returns(params),
         Meant(M) => ReadAsSent(params, M)
  PROVE  DecodesWhatWasSent'
<1>1. input' = input
  BY OneMore
<1>2. SUFFICES ASSUME NEW i \in DOMAIN decoded', Meant(input.msgs[i])
               PROVE  ReadAsSent(decoded'[i], input.msgs[i])
  BY <1>1 DEF DecodesWhatWasSent, ReadAsSent, RowReader, Meant, Readable
<1>3. CASE i = k
  BY <1>2, <1>3, OneMore DEF M
<1>4. CASE i # k
  <2>1. i \in DOMAIN decoded /\ decoded'[i] = decoded[i]
    BY <1>4, OneMore
  <2>2. ReadAsSent(decoded[i], input.msgs[i])
    BY <1>2, <2>1 DEF DecodesWhatWasSent, ReadAsSent, RowReader
  <2> QED
    BY <2>1, <2>2
<1> QED
  BY <1>3, <1>4

\* A loop that has come to its end has read all that was sent.
LEMMA EndsAsSent ==
  ASSUME IInv, RowInv, TreeInv, EndMessage, Meant(M)
  PROVE  ReadAsSent(Head(frames).params, M)
<1>1. Len(frames) = 1 /\ ~Reading /\ frames # <<>> /\ Head(frames) = frames[1]
  <2>1. Len(frames) = 1 /\ ~Reading /\ frames # <<>>
    BY DEF EndMessage
  <2> QED
    BY <2>1, Innermost
<1>2. CASE RowReader
  <2>1. PICK r \in 0 .. Len(Row(M)) :
          RowsRead(r) /\ (r < Len(Row(M)) => Reading)
    BY <1>1, <1>2, NextInRow
  <2>2. r = Len(Row(M))
    <3>1. Len(Row(M)) \in Nat
      BY <1>1, Innermost, Under, RowFacts
    <3>2. ASSUME NEW n, n = Len(Row(M)) PROVE r = n
      <4>1. n \in Nat /\ r \in 0 .. n /\ ~(r < n)
        BY <1>1, <2>1, <3>1, <3>2
      <4> QED
        BY <4>1
    <3> QED
      BY <3>2
  <2> QED
    BY <1>1, <1>2, <2>1, <2>2 DEF RowsRead, ReadAsSent
<1>3. CASE ~RowReader
  <2>1. TreeReading
    BY <1>1, <1>3 DEF TreeReading
  <2>2. M.good \in Nat
    BY <1>1, Innermost, Under, RowFacts
  <2>3. PICK i \in 0 .. M.good :
          ItemsRead(i, frames[1]) /\ offset = StartOf(M, Place(M, i + 1))
    BY <1>1, <1>3 DEF TreeInv, RowReader
  <2>4. i = M.good
    <3>1. i < M.good => Reading
      BY <2>1, <2>3, ItemNext
    <3> QED
      BY <1>1, <2>2, <3>1
  <2> QED
    BY <1>1, <1>3, <2>3, <2>4 DEF ItemsRead, Frame, ReadAsSent
<1> QED
  BY <1>2, <1>3

LEMMA DecodedStep ==
  ASSUME IInv, RowInv, TreeInv, DecodesWhatWasSent, [Next]_vars
  PROVE  DecodesWhatWasSent'
<1>1. CASE PassMessage
  BY <1>1, Returned DEF PassMessage, Meant
<1>2. CASE EndMessage
  BY <1>2, EndsAsSent, Returned DEF EndMessage
<1>3. CASE UNCHANGED <<input, decoded>>
  BY <1>3 DEF DecodesWhatWasSent, Meant, Readable
<1> QED
  BY <1>1, <1>2, <1>3 DEF Next, Decode, Finished, vars, StartMessage, ReadParam, SkipQueue,
     EnterGroup, LeaveGroup

-----------------------------------------------------------------------------
(* The specification.                                                      *)

LEMMA ContentInitially == Init => ContentInv
BY DEF Init, ContentInv, RowInv, TreeInv, DecodesWhatWasSent

LEMMA ContentStep == IInv /\ ContentInv /\ [Next]_vars => ContentInv'
BY RowStep, TreeStep, DecodedStep DEF ContentInv

\* Each reader makes of a message that is laid out well, whatever its items, their
\* number and their members, just what was sent, and of a damaged one just what
\* precedes the damage; the command server gets each command whole.
THEOREM ReadsWhatWasSent == Spec => []DecodesWhatWasSent
<1>1. Spec => [](IInv /\ ContentInv)
  BY Initially, Step, ContentInitially, ContentStep, PTL DEF Spec
<1>2. ContentInv => DecodesWhatWasSent
  BY DEF ContentInv
<1> QED
  BY <1>1, <1>2, PTL

=============================================================================
