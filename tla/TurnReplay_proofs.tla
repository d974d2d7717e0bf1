--------------------------- MODULE TurnReplay_proofs ---------------------------
(***************************************************************************)
(* For every number of blocks, pieces and turns: each call is published    *)
(* with its own pieces, no turn makes a later request fail, and a completed*)
(* turn comes back to the model as it left it.                             *)
(***************************************************************************)
EXTENDS TurnReplay, FiniteSetTheorems, TLAPS

\* The types of what the harness keeps.  A call is only ever published with arguments that
\* are an object.
Natives == [type: Types, signature: Nat, object: BOOLEAN, sent: 0 .. MaxDeltas,
            ended: BOOLEAN]
Arguments == Seq(Nat \X Nat)
Blocks == [type: Types \ {"tool-call"}, text: Nat]
          \cup [type: {"tool-call"}, arguments: Arguments, object: {TRUE}]
Replays == [stopReason: StopReasons, blocks: Seq([type: Types, signature: Nat])]
Messages == [content: Seq(Blocks), replay: Replays \cup {NoReplay}]
Origins == [stopReason: StopReasons,
            content: Seq([type: Types, signature: Nat, value: Nat \cup Arguments])]

TurnTypeOK ==
    /\ at \in Places
    /\ native \in Seq(Natives) /\ Len(native) <= MaxBlocks
    /\ rawArguments \in [Indices -> Arguments]
    /\ DOMAIN blocks = Indices
    /\ history \in Seq(Messages) /\ origin \in Seq(Origins \cup {NoNative})
    /\ Len(history) = Len(origin)

\* An open call has gathered its own pieces, in their order; nothing else has any.
Gathered == \A i \in Indices :
    rawArguments[i] = IF Open(i) THEN Pieces(i, native[i].sent) ELSE <<>>

Presentable(i) == native[i].type = "tool-call" => native[i].object

\* The block the end of a presentable block publishes.
BlockOf(i) ==
    IF native[i].type = "tool-call"
    THEN [type |-> "tool-call", arguments |-> Delivered(i), object |-> TRUE]
    ELSE [type |-> native[i].type, text |-> i]

\* What is published is what ended and is presentable, and nothing else.
Published == \A i \in Indices :
    blocks[i] = IF i \in DOMAIN native /\ native[i].ended /\ Presentable(i)
                THEN BlockOf(i) ELSE Missing

\* A stream goes on only while all that ended is presentable, and is thrown out of only
\* for a call that is not; between the turns there are no blocks.
Streams ==
    /\ at = "streaming" => \A i \in DOMAIN native : native[i].ended => Presentable(i)
    /\ at = "INVALID_REQUEST" => \E i \in DOMAIN native : native[i].ended /\ ~Presentable(i)
    /\ at \notin {"streaming", "INVALID_REQUEST"} => native = <<>>

\* A text gathers no pieces.
TextsAreWhole == \A i \in DOMAIN native : native[i].type # "tool-call" => native[i].sent = 0

\* What a kept message is worth to the next request.
Serves(message, meant) ==
    /\ ToPiAssistant(message) # Refused
    /\ meant # NoNative => ToPiAssistant(message) = meant

HistoryServes ==
    /\ \A t \in DOMAIN history : Serves(history[t], origin[t])
    /\ at # "INVALID_REPLAY_STATE"

TurnInv == TurnTypeOK /\ Gathered /\ Published /\ Streams /\ TextsAreWhole /\ HistoryServes

------------------------------------------------------------------------------
(* Pieces of arguments.                                                    *)

LEMMA PiecesGrow ==
  ASSUME NEW i \in Nat, NEW n \in Nat
  PROVE  /\ Pieces(i, 0) = <<>>
         /\ Append(Pieces(i, n), <<i, n + 1>>) = Pieces(i, n + 1)
         /\ Pieces(i, n) \in Arguments
         /\ n > 0 => Pieces(i, n) # <<>> /\ Pieces(i, n)[1] = <<i, 1>>
  BY DEF Pieces, Arguments

LEMMA DomainFacts ==
  ASSUME TurnTypeOK
  PROVE  /\ Len(native) \in Nat /\ DOMAIN native = 1 .. Len(native)
         /\ DOMAIN native \subseteq Indices /\ Indices \subseteq Nat
         /\ \A i \in DOMAIN native : native[i] \in Natives
  BY TurnAssumption DEF TurnTypeOK, Indices

\* What was delivered of a call tells which call it was.
LEMMA DeliveredIsOwn ==
  ASSUME TurnTypeOK, NEW i \in DOMAIN native
  PROVE  Delivered(i) \in Arguments /\ Delivered(i) # <<>> /\ Delivered(i)[1][1] = i
  <1>1. i \in Nat /\ native[i].sent \in Nat
    BY DomainFacts, TurnAssumption DEF Natives
  <1>2. CASE native[i].sent > 0
    <2>1. Delivered(i) = Pieces(i, native[i].sent)
      BY <1>2 DEF Delivered
    <2>2. /\ Pieces(i, native[i].sent) \in Arguments
          /\ Pieces(i, native[i].sent) # <<>> /\ Pieces(i, native[i].sent)[1] = <<i, 1>>
      BY <1>1, <1>2, PiecesGrow
    <2> QED BY <2>1, <2>2
  <1>3. CASE ~(native[i].sent > 0)
    <2>1. Delivered(i) = << <<i, 0>> >>
      BY <1>3 DEF Delivered, Assembled
    <2>2. << <<i, 0>> >> \in Arguments /\ << <<i, 0>> >> # <<>> /\ << <<i, 0>> >>[1] = <<i, 0>>
      BY <1>1 DEF Arguments
    <2> QED BY <2>1, <2>2
  <1> QED BY <1>2, <1>3

\* The arguments an open call would be published with are the delivered ones, and the
\* check reads what the call meant.
LEMMA ArgumentsFacts ==
  ASSUME TurnTypeOK, Gathered, NEW i \in DOMAIN native, Open(i)
  PROVE  ArgumentsOf(i) = Delivered(i) /\ IsJsonObject(Delivered(i)) = native[i].object
  <1>1. i \in Indices /\ i \in Nat /\ native[i].sent \in Nat /\ native[i].object \in BOOLEAN
    BY DomainFacts, TurnAssumption DEF Natives
  <1>2. rawArguments[i] = Pieces(i, native[i].sent)
    BY <1>1 DEF Gathered
  <1>3. ArgumentsOf(i) = Delivered(i)
    <2>1. CASE native[i].sent > 0
      <3>1. Pieces(i, native[i].sent) # <<>>
        BY <1>1, <2>1, PiecesGrow
      <3> QED BY <1>2, <2>1, <3>1 DEF ArgumentsOf, Delivered
    <2>2. CASE native[i].sent = 0
      <3>1. Pieces(i, 0) = <<>>
        BY <1>1, PiecesGrow
      <3> QED BY <1>2, <2>2, <3>1 DEF ArgumentsOf, Delivered
    <2> QED BY <1>1, <2>1, <2>2
  <1>4. \A j \in DOMAIN native : Delivered(i) = Delivered(j) => i = j
    BY DeliveredIsOwn
  <1>5. IsJsonObject(Delivered(i)) <=> native[i].object
    BY <1>4 DEF IsJsonObject
  <1>6. IsJsonObject(Delivered(i)) \in BOOLEAN
    BY DEF IsJsonObject
  <1> QED BY <1>1, <1>3, <1>5, <1>6

LEMMA SameBlock ==
  ASSUME NEW i, native'[i].type = native[i].type, native'[i].object = native[i].object,
         native'[i].sent = native[i].sent
  PROVE  /\ Delivered(i)' = Delivered(i) /\ BlockOf(i)' = BlockOf(i)
         /\ Presentable(i)' = Presentable(i)
  BY DEF Delivered, BlockOf, Presentable

LEMMA BlocksAreTyped ==
  ASSUME TurnTypeOK, NEW i \in DOMAIN native, Presentable(i)
  PROVE  BlockOf(i) \in Blocks /\ BlockOf(i) # Missing /\ BlockOf(i).type = native[i].type
  <1>1. i \in Nat /\ native[i].type \in Types /\ Delivered(i) \in Arguments
    BY DomainFacts, DeliveredIsOwn DEF Natives
  <1>2. CASE native[i].type = "tool-call"
    BY <1>1, <1>2 DEF BlockOf, Blocks, Missing
  <1>3. CASE native[i].type # "tool-call"
    BY <1>1, <1>3 DEF BlockOf, Blocks, Missing, Types
  <1> QED BY <1>2, <1>3

------------------------------------------------------------------------------
(* What the harness keeps.                                                 *)

LEMMA EndedFacts ==
  ASSUME TurnTypeOK, Published
  PROVE  /\ Ended \in SUBSET DOMAIN native /\ IsFiniteSet(Ended) /\ Cardinality(Ended) \in Nat
         /\ \A i \in Ended : blocks[i] \in Blocks
  <1>1. Ended \in SUBSET (1 .. Len(native)) /\ Len(native) \in Int /\ 1 \in Int
    BY DomainFacts DEF Ended
  <1>2. IsFiniteSet(1 .. Len(native))
    BY <1>1, FS_Interval
  <1>3. IsFiniteSet(Ended)
    BY <1>1, <1>2, FS_Subset
  <1>4. Cardinality(Ended) \in Nat
    BY <1>3, FS_CardinalityType
  <1>5. ASSUME NEW i \in Ended
        PROVE  blocks[i] \in Blocks
    <2>1. i \in DOMAIN native /\ i \in Indices /\ blocks[i] # Missing
      BY DomainFacts DEF Ended
    <2>2. Presentable(i) /\ blocks[i] = BlockOf(i)
      BY <2>1 DEF Published
    <2> QED BY <2>1, <2>2, BlocksAreTyped
  <1> QED BY <1>3, <1>4, <1>5, DomainFacts DEF Ended

\* The ranks of the ended blocks are one to their number: different blocks have different
\* ranks, and there are as many ranks as blocks.
LEMMA EveryRankIsTaken ==
  ASSUME TurnTypeOK, Published, NEW k \in 1 .. Cardinality(Ended)
  PROVE  \E i \in Ended : Rank(i) = k
  <1> DEFINE m == Cardinality(Ended)
             UpTo(i) == {j \in Ended : j <= i}
             rank == [i \in Ended |-> Rank(i)]
  <1>1. IsFiniteSet(Ended) /\ m \in Nat /\ m \in Int /\ 1 \in Int /\ Ended \subseteq Nat
    BY EndedFacts, DomainFacts
  <1>2. IsFiniteSet(1 .. m) /\ Cardinality(1 .. m) = m
    BY <1>1, FS_Interval
  <1>3. ASSUME NEW i \in Ended
        PROVE  IsFiniteSet(UpTo(i)) /\ Rank(i) \in 1 .. m
    <2>1. UpTo(i) \in SUBSET Ended /\ i \in UpTo(i)
      BY <1>1
    <2>2. IsFiniteSet(UpTo(i)) /\ Cardinality(UpTo(i)) <= m
      BY <1>1, <2>1, FS_Subset
    <2>3. Cardinality(UpTo(i)) \in Nat /\ Cardinality(UpTo(i)) # 0
      BY <2>1, <2>2, FS_CardinalityType, FS_EmptySet
    <2> QED BY <1>1, <2>2, <2>3 DEF Rank
  <1>4. ASSUME NEW i \in Ended, NEW j \in Ended, i < j
        PROVE  Rank(i) # Rank(j)
    <2>0. \A l \in Ended : l \in Nat
      BY <1>1
    <2>1. /\ \A l \in UpTo(i) : l \in UpTo(j)
          /\ j \in UpTo(j) /\ j \notin UpTo(i)
      BY <2>0, <1>4
    <2>2. IsFiniteSet(UpTo(j))
      BY <1>3
    <2>3. Cardinality(UpTo(j)) # Cardinality(UpTo(i))
      <3> HIDE DEF UpTo
      <3> QED BY <2>1, <2>2, FS_Subset
    <2> QED BY <2>3 DEF Rank
  <1>5. rank \in Injection(Ended, 1 .. m)
    <2>1. rank \in [Ended -> 1 .. m]
      BY <1>3
    <2>2. \A i, j \in Ended : rank[i] = rank[j] => i = j
      BY <1>1, <1>4
    <2> QED BY <2>1, <2>2 DEF Injection, IsInjective
  <1>6. rank \in Surjection(Ended, 1 .. m)
    <2> HIDE DEF rank, m
    <2> QED BY <1>1, <1>2, <1>5, FS_Injection DEF m
  <1> QED BY <1>6 DEF Surjection

LEMMA ContentIsTyped ==
  ASSUME TurnTypeOK, Published
  PROVE  Content \in Seq(Blocks)
  <1>1. ASSUME NEW k \in 1 .. Cardinality(Ended)
        PROVE  blocks[CHOOSE i \in Ended : Rank(i) = k] \in Blocks
    BY EveryRankIsTaken, EndedFacts
  <1> QED BY <1>1, EndedFacts DEF Content

\* Of a turn in which every block has ended, presentable, nothing is missing.
LEMMA ContentIsComplete ==
  ASSUME TurnTypeOK, Published,
         \A i \in DOMAIN native : native[i].ended /\ Presentable(i)
  PROVE  Content = [i \in DOMAIN native |-> BlockOf(i)]
  <1>1. \A i \in DOMAIN native : blocks[i] = BlockOf(i) /\ BlockOf(i) # Missing
    BY DomainFacts, BlocksAreTyped DEF Published
  <1>2. Ended = 1 .. Len(native) /\ DOMAIN native = 1 .. Len(native) /\ Len(native) \in Nat
    BY <1>1, DomainFacts DEF Ended
  <1>3. Cardinality(Ended) = Len(native)
    BY <1>2, FS_Interval
  <1>4. ASSUME NEW i \in 1 .. Len(native)
        PROVE  Rank(i) = i
    <2>1. {j \in Ended : j <= i} = 1 .. i
      BY <1>2
    <2>2. Cardinality(1 .. i) = i
      BY <1>2, FS_Interval
    <2> QED BY <2>1, <2>2 DEF Rank
  <1>5. ASSUME NEW k \in 1 .. Len(native)
        PROVE  (CHOOSE i \in Ended : Rank(i) = k) = k
    BY <1>2, <1>4
  <1>6. Content = [k \in 1 .. Len(native) |-> BlockOf(k)]
    BY <1>1, <1>2, <1>3, <1>5 DEF Content
  <1> QED BY <1>2, <1>6

------------------------------------------------------------------------------
(* What a kept message is worth.                                           *)

\* A published call's arguments are an object, so that no kept block is refused.
LEMMA KeptParses ==
  ASSUME NEW message \in Messages
  PROVE  Parses(message)
  <1>1. \A i \in DOMAIN message.content : message.content[i] \in Blocks
    BY DEF Messages
  <1>2. \A block \in Blocks : block.type = "tool-call" => block.object
    BY DEF Blocks
  <1> QED BY <1>1, <1>2 DEF Parses

LEMMA ForeignServes ==
  ASSUME NEW message \in Messages, message.replay = NoReplay
  PROVE  Serves(message, NoNative)
  <1>1. ToPiAssistant(message) = ForeignAssistant(message)
    BY KeptParses DEF ToPiAssistant
  <1>2. ForeignAssistant(message).stopReason # "refused"
    BY DEF ForeignAssistant
  <1>3. Refused.stopReason = "refused"
    BY DEF Refused
  <1> QED BY <1>1, <1>2, <1>3 DEF Serves

LEMMA CompletedServes ==
  ASSUME TurnTypeOK, Published, NEW stop \in StopReasons,
         \A i \in DOMAIN native : native[i].ended /\ Presentable(i)
  PROVE  /\ [content |-> Content, replay |-> ReplayState(stop)] \in Messages
         /\ Meant(stop) \in Origins
         /\ Serves([content |-> Content, replay |-> ReplayState(stop)], Meant(stop))
  <1> DEFINE message == [content |-> Content, replay |-> ReplayState(stop)]
  <1>1. /\ Len(native) \in Nat /\ DOMAIN native = 1 .. Len(native)
        /\ \A i \in DOMAIN native : /\ i \in Nat /\ native[i].type \in Types
                                    /\ native[i].signature \in Nat
                                    /\ Delivered(i) \in Arguments
                                    /\ BlockOf(i).type = native[i].type
    BY DomainFacts, DeliveredIsOwn, BlocksAreTyped DEF Natives
  <1>2. ReplayState(stop) \in Replays
    BY <1>1 DEF ReplayState, Replays
  <1>3. message \in Messages
    BY <1>2, ContentIsTyped DEF Messages
  <1>4. Meant(stop) \in Origins
    BY <1>1 DEF Meant, Origins
  <1>5. /\ DOMAIN Content = 1 .. Len(native) /\ Len(Content) = Len(native)
        /\ \A i \in DOMAIN native : Content[i] = BlockOf(i)
    BY <1>1, ContentIsComplete
  <1>6. /\ Len(ReplayState(stop).blocks) = Len(native)
        /\ \A i \in DOMAIN native : /\ ReplayState(stop).blocks[i].type = native[i].type
                                    /\ ReplayState(stop).blocks[i].signature
                                         = native[i].signature
        /\ ReplayState(stop).stopReason = stop
    BY <1>1 DEF ReplayState
  <1>7. Fits(message)
    BY <1>1, <1>5, <1>6 DEF Fits
  <1>8. ReplayState(stop) # NoReplay /\ stop # "refused"
    BY <1>6 DEF NoReplay, StopReasons
  <1>9. ToPiAssistant(message) = ReplayedAssistant(message)
    BY <1>3, <1>7, <1>8, KeptParses DEF ToPiAssistant
  <1>10. ASSUME NEW i \in DOMAIN native
         PROVE  Value(Content[i])
                  = IF native[i].type = "tool-call" THEN Delivered(i) ELSE i
    <2>1. Content[i] = BlockOf(i)
      BY <1>5
    <2>2. CASE native[i].type = "tool-call"
      BY <2>1, <2>2 DEF Value, BlockOf
    <2>3. CASE native[i].type # "tool-call"
      BY <2>1, <2>3 DEF Value, BlockOf
    <2> QED BY <2>2, <2>3
  <1>11. ReplayedAssistant(message) = Meant(stop)
    BY <1>1, <1>5, <1>6, <1>10 DEF ReplayedAssistant, Meant
  <1>12. ReplayedAssistant(message) # Refused
    BY <1>6, <1>8 DEF ReplayedAssistant, Refused
  <1> QED BY <1>3, <1>4, <1>9, <1>11, <1>12 DEF Serves

\* A message that serves, kept behind others that do.
LEMMA KeepingServes ==
  ASSUME TurnTypeOK, HistoryServes, NEW content, NEW replay, NEW meant,
         [content |-> content, replay |-> replay] \in Messages,
         meant \in Origins \cup {NoNative},
         Serves([content |-> content, replay |-> replay], meant),
         history' = Append(history, [content |-> content, replay |-> replay]),
         origin' = Append(origin, meant), at' = "idle"
  PROVE  /\ history' \in Seq(Messages) /\ origin' \in Seq(Origins \cup {NoNative})
         /\ Len(history') = Len(origin')
         /\ HistoryServes'
  <1> DEFINE message == [content |-> content, replay |-> replay]
  <1>1. /\ history \in Seq(Messages) /\ origin \in Seq(Origins \cup {NoNative})
        /\ Len(history) = Len(origin) /\ Len(history) \in Nat
        /\ DOMAIN history = 1 .. Len(history)
    BY DEF TurnTypeOK
  <1>2. /\ history' \in Seq(Messages) /\ origin' \in Seq(Origins \cup {NoNative})
        /\ Len(history') = Len(history) + 1 /\ Len(origin') = Len(origin) + 1
        /\ DOMAIN history' = 1 .. Len(history) + 1
        /\ \A t \in 1 .. Len(history) : history'[t] = history[t] /\ origin'[t] = origin[t]
        /\ history'[Len(history) + 1] = message /\ origin'[Len(history) + 1] = meant
    <2> HIDE DEF message
    <2>1. history' = Append(history, message) /\ message \in Messages
      BY DEF message
    <2> QED BY <1>1, <2>1
  <1>3. \A t \in DOMAIN history' : Serves(history'[t], origin'[t])
    <2> HIDE DEF message
    <2>1. Serves(message, meant)
      BY DEF message
    <2>2. \A t \in 1 .. Len(history) : Serves(history[t], origin[t])
      BY <1>1 DEF HistoryServes
    <2> QED BY <1>1, <1>2, <2>1, <2>2
  <1> QED BY <1>1, <1>2, <1>3 DEF HistoryServes

------------------------------------------------------------------------------
(* The steps.                                                              *)

\* A turn that goes on leaves the history alone.
LEMMA SameHistory ==
  ASSUME HistoryServes, UNCHANGED <<history, origin>>, at' # "INVALID_REPLAY_STATE"
  PROVE  HistoryServes'
  BY DEF HistoryServes

\* A turn that has ended left nothing behind.
LEMMA EndedTurn ==
  ASSUME TurnTypeOK, EndsTurn
  PROVE  /\ Gathered' /\ Published' /\ Streams' /\ TextsAreWhole'
         /\ native' \in Seq(Natives) /\ Len(native') = 0
         /\ rawArguments' \in [Indices -> Arguments] /\ DOMAIN blocks' = Indices
  <1>1. native' = <<>> /\ at' = "idle" /\ DOMAIN native' = {}
    BY DEF EndsTurn
  <1>2. <<>> \in Arguments
    BY DEF Arguments
  <1>3. rawArguments' = [i \in Indices |-> <<>>] /\ blocks' = [i \in Indices |-> Missing]
    BY DEF EndsTurn
  <1>4. Gathered'
    BY <1>1, <1>3 DEF Gathered, Open
  <1>5. Published'
    BY <1>1, <1>3 DEF Published
  <1>6. Streams' /\ TextsAreWhole'
    BY <1>1 DEF Streams, TextsAreWhole
  <1> QED BY <1>1, <1>2, <1>3, <1>4, <1>5, <1>6

LEMMA InitInv == Init => TurnInv
  <1> SUFFICES ASSUME Init PROVE TurnInv
    OBVIOUS
  <1> USE DEF Init
  <1>1. TurnTypeOK
    BY TurnAssumption DEF TurnTypeOK, Places, Arguments
  <1>2. Gathered /\ Published
    BY DEF Gathered, Published, Open
  <1>3. Streams /\ TextsAreWhole /\ HistoryServes
    BY DEF Streams, TextsAreWhole, HistoryServes
  <1> QED BY <1>1, <1>2, <1>3 DEF TurnInv

LEMMA GenerateKeeps ==
  ASSUME TurnInv, Generate
  PROVE  TurnInv'
  <1>1. at' = "streaming"
    BY DEF Generate, TurnInv, HistoryServes, Serves
  <1>2. native = <<>>
    BY DEF Generate, TurnInv, Streams
  <1>3. TurnTypeOK'
    BY <1>1 DEF TurnInv, TurnTypeOK, Generate, Places
  <1>4. Gathered' /\ Published' /\ TextsAreWhole'
    BY DEF TurnInv, Generate, Gathered, Published, TextsAreWhole, Open, Delivered, BlockOf,
           Presentable
  <1>5. Streams'
    BY <1>1, <1>2 DEF Generate, Streams
  <1>6. HistoryServes'
    BY <1>1, SameHistory DEF TurnInv, Generate
  <1> QED BY <1>3, <1>4, <1>5, <1>6 DEF TurnInv

LEMMA StartsKeeps ==
  ASSUME TurnInv, NEW type \in Types, NEW signature \in Nat, NEW object \in BOOLEAN,
         Starts(type, signature, object)
  PROVE  TurnInv'
  <1> DEFINE block == [type |-> type, signature |-> signature, object |-> object,
                       sent |-> 0, ended |-> FALSE]
             new == Len(native) + 1
  <1>1. block \in Natives
    BY TurnAssumption DEF Natives
  <1>2. TurnTypeOK
    BY DEF TurnInv
  <1>3. /\ native \in Seq(Natives) /\ Len(native) \in Nat /\ DOMAIN native = 1 .. Len(native)
        /\ Len(native) < MaxBlocks /\ new \in Indices /\ Indices \subseteq Nat
    BY <1>2, DomainFacts, TurnAssumption DEF Starts, TurnTypeOK, Indices
  <1>4. /\ native' \in Seq(Natives) /\ Len(native') = new
        /\ DOMAIN native' = DOMAIN native \cup {new} /\ native'[new] = block
        /\ \A i \in DOMAIN native : native'[i] = native[i]
    <2> HIDE DEF block
    <2>1. native' = Append(native, block)
      BY DEF Starts, block
    <2> QED BY <1>1, <1>3, <2>1
  <1>5. /\ rawArguments \in [Indices -> Arguments]
        /\ rawArguments' = [rawArguments EXCEPT ![new] = <<>>]
        /\ UNCHANGED <<at, blocks, history, origin>> /\ at = "streaming"
    BY <1>2 DEF Starts, TurnTypeOK
  <1>6. TurnTypeOK'
    <2>1. <<>> \in Arguments
      BY DEF Arguments
    <2> QED BY <1>2, <1>3, <1>4, <1>5, <2>1, TurnAssumption DEF TurnTypeOK
  <1>7. Gathered'
    <2>1. Pieces(new, 0) = <<>>
      BY <1>3, PiecesGrow
    <2>2. ASSUME NEW i \in Indices, i # new
          PROVE  Open(i)' = Open(i) /\ (Open(i) => native'[i] = native[i])
      BY <1>3, <1>4, <2>2 DEF Open
    <2> QED BY <1>3, <1>4, <1>5, <2>1, <2>2 DEF Gathered, TurnInv
  <1>8. Published'
    <2>1. ASSUME NEW i \in Indices, i \in DOMAIN native
          PROVE  BlockOf(i)' = BlockOf(i) /\ Presentable(i)' = Presentable(i)
      BY <1>4, <2>1, SameBlock
    <2>2. new \notin DOMAIN native /\ ~native'[new].ended
      BY <1>3, <1>4
    <2> QED BY <1>3, <1>4, <1>5, <2>1, <2>2 DEF Published, TurnInv
  <1>9. Streams' /\ TextsAreWhole'
    BY <1>4, <1>5 DEF TurnInv, Streams, TextsAreWhole, Presentable
  <1>10. HistoryServes'
    BY <1>5, SameHistory DEF TurnInv
  <1> QED BY <1>6, <1>7, <1>8, <1>9, <1>10 DEF TurnInv

\* A block that grows, and one that ends.
LEMMA BlockUpdates ==
  ASSUME NEW b \in Natives
  PROVE  /\ b.sent \in Nat /\ b.sent + 1 \in Nat
         /\ [b EXCEPT !.sent = @ + 1].sent = b.sent + 1
         /\ [b EXCEPT !.sent = @ + 1].ended = b.ended
         /\ [b EXCEPT !.sent = @ + 1].type = b.type
         /\ b.sent < MaxDeltas => [b EXCEPT !.sent = @ + 1] \in Natives
         /\ [b EXCEPT !.ended = TRUE] \in Natives /\ [b EXCEPT !.ended = TRUE].ended
         /\ [b EXCEPT !.ended = TRUE].type = b.type
         /\ [b EXCEPT !.ended = TRUE].sent = b.sent
         /\ [b EXCEPT !.ended = TRUE].object = b.object
  <1>1. /\ b.type \in Types /\ b.signature \in Nat /\ b.object \in BOOLEAN
        /\ b.sent \in 0 .. MaxDeltas /\ b.ended \in BOOLEAN
    BY DEF Natives
  <1>2. b.sent \in Nat /\ b.sent + 1 \in Nat
    BY <1>1, TurnAssumption
  <1>3. /\ [b EXCEPT !.sent = @ + 1].sent = b.sent + 1
        /\ [b EXCEPT !.sent = @ + 1].ended = b.ended
        /\ [b EXCEPT !.sent = @ + 1].type = b.type
    BY DEF Natives
  <1>4. ASSUME b.sent < MaxDeltas
        PROVE  [b EXCEPT !.sent = @ + 1] \in Natives
    <2>1. b.sent + 1 \in 0 .. MaxDeltas
      BY <1>2, <1>4, TurnAssumption
    <2> QED BY <2>1 DEF Natives
  <1>5. /\ [b EXCEPT !.ended = TRUE] \in Natives /\ [b EXCEPT !.ended = TRUE].ended
        /\ [b EXCEPT !.ended = TRUE].type = b.type
        /\ [b EXCEPT !.ended = TRUE].sent = b.sent
        /\ [b EXCEPT !.ended = TRUE].object = b.object
    BY DEF Natives
  <1> QED BY <1>2, <1>3, <1>4, <1>5

LEMMA DeltaKeeps ==
  ASSUME TurnInv, NEW i \in DOMAIN native, Delta(i)
  PROVE  TurnInv'
  <1>1. TurnTypeOK /\ i \in Indices /\ i \in Nat /\ native[i] \in Natives
    BY DomainFacts DEF TurnInv
  <1>2. /\ native' = [native EXCEPT ![i].sent = @ + 1]
        /\ rawArguments' = [rawArguments EXCEPT ![i] = Append(@, <<i, native[i].sent + 1>>)]
        /\ at = "streaming" /\ Open(i) /\ native[i].type = "tool-call"
        /\ native[i].sent < MaxDeltas /\ UNCHANGED <<at, blocks, history, origin>>
    BY DEF Delta
  <1>3. /\ native \in Seq(Natives) /\ Len(native) \in Nat
        /\ DOMAIN native = 1 .. Len(native) /\ rawArguments \in [Indices -> Arguments]
    BY <1>1 DEF TurnTypeOK
  <1>4. [native[i] EXCEPT !.sent = @ + 1] \in Natives
    BY <1>1, <1>2, BlockUpdates
  <1>5. /\ native' \in Seq(Natives) /\ Len(native') = Len(native)
        /\ DOMAIN native' = DOMAIN native
        /\ native'[i] = [native[i] EXCEPT !.sent = @ + 1]
        /\ \A j \in DOMAIN native \ {i} : native'[j] = native[j]
    BY <1>2, <1>3, <1>4
  <1>6. /\ native[i].sent \in Nat /\ native'[i].sent = native[i].sent + 1
        /\ native'[i].ended = native[i].ended /\ native'[i].type = "tool-call"
    BY <1>1, <1>2, <1>5, BlockUpdates
  <1>7. /\ rawArguments[i] = Pieces(i, native[i].sent)
        /\ rawArguments'[i] = Pieces(i, native[i].sent + 1)
        /\ rawArguments'[i] \in Arguments
    <2>1. rawArguments[i] = Pieces(i, native[i].sent)
      BY <1>1, <1>2 DEF TurnInv, Gathered
    <2>2. rawArguments'[i] = Append(rawArguments[i], <<i, native[i].sent + 1>>)
      BY <1>1, <1>2, <1>3
    <2>3. /\ Append(Pieces(i, native[i].sent), <<i, native[i].sent + 1>>)
               = Pieces(i, native[i].sent + 1)
          /\ Pieces(i, native[i].sent + 1) \in Arguments
      BY <1>1, PiecesGrow, BlockUpdates
    <2> QED BY <2>1, <2>2, <2>3
  <1>8. TurnTypeOK'
    <2>1. rawArguments' \in [Indices -> Arguments]
      BY <1>1, <1>2, <1>3, <1>7
    <2> QED BY <1>1, <1>2, <1>5, <2>1 DEF TurnTypeOK
  <1>9. Gathered'
    <2>1. \A j \in Indices \ {i} : rawArguments'[j] = rawArguments[j]
      BY <1>2, <1>3
    <2>2. \A j \in Indices : Open(j)' = Open(j)
      BY <1>5, <1>6 DEF Open
    <2> QED BY <1>1, <1>2, <1>5, <1>6, <1>7, <2>1, <2>2 DEF Gathered, TurnInv, Open
  <1>10. Published'
    <2>1. ASSUME NEW j \in DOMAIN native \ {i}
          PROVE  BlockOf(j)' = BlockOf(j) /\ Presentable(j)' = Presentable(j)
      BY <1>5, SameBlock
    <2>2. ~native[i].ended /\ ~native'[i].ended
      BY <1>2, <1>6 DEF Open
    <2> QED BY <1>2, <1>5, <2>1, <2>2 DEF Published, TurnInv
  <1>11. Streams' /\ TextsAreWhole'
    <2>1. ~native'[i].ended
      BY <1>2, <1>6 DEF Open
    <2> QED BY <1>2, <1>5, <1>6, <2>1 DEF TurnInv, Streams, TextsAreWhole, Presentable
  <1>12. HistoryServes'
    BY <1>2, SameHistory DEF TurnInv
  <1> QED BY <1>8, <1>9, <1>10, <1>11, <1>12 DEF TurnInv

\* What the end of a block does to the blocks of the turn.
EndsBlock(i) ==
    /\ native' = [native EXCEPT ![i].ended = TRUE]
    /\ Open(i) /\ at = "streaming"
    /\ UNCHANGED <<history, origin>>

LEMMA EndsFrame ==
  ASSUME TurnInv, NEW i \in DOMAIN native, EndsBlock(i)
  PROVE  /\ native' \in Seq(Natives) /\ Len(native') = Len(native)
         /\ DOMAIN native' = DOMAIN native /\ DOMAIN native \subseteq Indices
         /\ native'[i].ended /\ ~native[i].ended
         /\ \A j \in DOMAIN native \ {i} : native'[j] = native[j]
         /\ \A j \in DOMAIN native : /\ Delivered(j)' = Delivered(j)
                                     /\ BlockOf(j)' = BlockOf(j)
                                     /\ Presentable(j)' = Presentable(j)
         /\ TextsAreWhole'
  <1>1. TurnTypeOK /\ native[i] \in Natives
    BY DomainFacts DEF TurnInv
  <1>2. native \in Seq(Natives) /\ Len(native) \in Nat /\ DOMAIN native = 1 .. Len(native)
    BY <1>1 DEF TurnTypeOK
  <1>3. [native[i] EXCEPT !.ended = TRUE] \in Natives
    BY <1>1, BlockUpdates
  <1>4. /\ native' \in Seq(Natives) /\ Len(native') = Len(native)
        /\ DOMAIN native' = DOMAIN native
        /\ native'[i] = [native[i] EXCEPT !.ended = TRUE]
        /\ \A j \in DOMAIN native \ {i} : native'[j] = native[j]
    BY <1>2, <1>3 DEF EndsBlock
  <1>5. /\ native'[i].ended /\ native'[i].type = native[i].type
        /\ native'[i].sent = native[i].sent /\ native'[i].object = native[i].object
    BY <1>1, <1>4, BlockUpdates
  <1>6. ASSUME NEW j \in DOMAIN native
        PROVE  /\ Delivered(j)' = Delivered(j) /\ BlockOf(j)' = BlockOf(j)
               /\ Presentable(j)' = Presentable(j)
    <2>1. /\ native'[j].type = native[j].type /\ native'[j].object = native[j].object
          /\ native'[j].sent = native[j].sent
      BY <1>4, <1>5
    <2> QED BY <2>1, SameBlock
  <1>7. TextsAreWhole'
    BY <1>4, <1>5 DEF TurnInv, TextsAreWhole
  <1> QED BY <1>1, <1>4, <1>5, <1>6, <1>7, DomainFacts DEF EndsBlock, Open

LEMMA TextEndsKeeps ==
  ASSUME TurnInv, NEW i \in DOMAIN native, TextEnds(i)
  PROVE  TurnInv'
  <1>1. /\ EndsBlock(i) /\ native[i].type # "tool-call" /\ UNCHANGED <<at, rawArguments>>
        /\ blocks' = [blocks EXCEPT ![i] = [type |-> native[i].type, text |-> i]]
    BY DEF TextEnds, EndsBlock, Publish
  <1>2. Presentable(i) /\ BlockOf(i) = [type |-> native[i].type, text |-> i]
    BY <1>1 DEF Presentable, BlockOf
  <1>3. TurnTypeOK /\ DOMAIN blocks = Indices
    BY DEF TurnInv, TurnTypeOK
  <1>4. TurnTypeOK'
    BY <1>1, <1>3, EndsFrame DEF TurnTypeOK, EndsBlock
  <1>5. Gathered'
    <2>1. i \in Nat /\ native[i].sent = 0 /\ Pieces(i, 0) = <<>>
      BY <1>1, <1>3, DomainFacts, PiecesGrow DEF TurnInv, TextsAreWhole
    <2>2. rawArguments[i] = <<>>
      BY <1>3, <2>1, DomainFacts DEF TurnInv, Gathered
    <2> QED BY <1>1, <2>2, EndsFrame DEF TurnInv, Gathered, Open
  <1>6. Published'
    BY <1>1, <1>2, <1>3, EndsFrame DEF TurnInv, Published
  <1>7. Streams'
    BY <1>1, <1>2, EndsFrame DEF TurnInv, Streams, EndsBlock
  <1>8. HistoryServes'
    BY <1>1, SameHistory DEF TurnInv, EndsBlock
  <1> QED BY <1>4, <1>5, <1>6, <1>7, <1>8, <1>1, EndsFrame DEF TurnInv

LEMMA CallEndsKeeps ==
  ASSUME TurnInv, NEW i \in DOMAIN native, CallEnds(i)
  PROVE  TurnInv'
  <1>1. /\ EndsBlock(i) /\ native[i].type = "tool-call"
        /\ rawArguments' = [rawArguments EXCEPT ![i] = <<>>]
    BY DEF CallEnds, EndsBlock
  <1>2. TurnTypeOK /\ DOMAIN blocks = Indices /\ rawArguments \in [Indices -> Arguments]
    BY DEF TurnInv, TurnTypeOK
  <1>3. /\ ArgumentsOf(i) = Delivered(i) /\ native[i].object \in BOOLEAN
        /\ IsJsonObject(Delivered(i)) = native[i].object
    BY <1>1, <1>2, ArgumentsFacts, DomainFacts DEF TurnInv, EndsBlock, Natives
  <1>4. /\ Presentable(i) <=> native[i].object
        /\ native[i].object =>
              BlockOf(i) = [type |-> "tool-call", arguments |-> Delivered(i), object |-> TRUE]
    BY <1>1 DEF Presentable, BlockOf
  <1>5. \/ Presentable(i) /\ at' = at /\ blocks' = [blocks EXCEPT ![i] = BlockOf(i)]
        \/ ~Presentable(i) /\ at' = "INVALID_REQUEST" /\ blocks' = blocks
    <2>1. CASE native[i].object
      BY <1>3, <1>4, <2>1 DEF CallEnds, CallBlock, Publish
    <2>2. CASE ~native[i].object
      BY <1>3, <1>4, <2>2 DEF CallEnds
    <2> QED BY <2>1, <2>2
  <1>6. TurnTypeOK'
    <2>1. <<>> \in Arguments
      BY DEF Arguments
    <2>2. rawArguments' \in [Indices -> Arguments]
      BY <1>1, <1>2, <2>1
    <2>3. at' \in Places
      BY <1>1, <1>5 DEF EndsBlock, Places
    <2>4. DOMAIN blocks' = Indices
      BY <1>2, <1>5
    <2> QED BY <1>1, <1>2, <2>2, <2>3, <2>4, EndsFrame DEF TurnTypeOK, EndsBlock
  <1>7. Gathered'
    BY <1>1, <1>2, EndsFrame DEF TurnInv, Gathered, Open
  <1>8. Published'
    BY <1>1, <1>2, <1>5, EndsFrame DEF TurnInv, Published
  <1>9. Streams'
    BY <1>1, <1>5, EndsFrame DEF TurnInv, Streams, EndsBlock
  <1>10. HistoryServes'
    BY <1>1, <1>5, SameHistory DEF TurnInv, EndsBlock
  <1> QED BY <1>1, <1>6, <1>7, <1>8, <1>9, <1>10, EndsFrame DEF TurnInv

LEMMA DoneKeeps ==
  ASSUME TurnInv, NEW stop \in StopReasons, NEW overflow \in BOOLEAN, Done(stop, overflow)
  PROVE  TurnInv'
  <1>1. TurnTypeOK /\ Published /\ at' = "idle" /\ EndsTurn
    BY DEF TurnInv, Done, EndsTurn
  <1>2. \A i \in DOMAIN native : native[i].ended /\ Presentable(i)
    BY DEF TurnInv, Streams, Done
  <1>3. /\ history' \in Seq(Messages) /\ origin' \in Seq(Origins \cup {NoNative})
        /\ Len(history') = Len(origin') /\ HistoryServes'
    <2>1. CASE Keeps(ReplayState(stop), Meant(stop))
      BY <1>1, <1>2, <2>1, CompletedServes, KeepingServes DEF TurnInv, Keeps
    <2>2. CASE UNCHANGED <<history, origin>>
      BY <1>1, <2>2, SameHistory DEF TurnInv, TurnTypeOK
    <2> QED BY <2>1, <2>2 DEF Done
  <1>4. TurnTypeOK'
    BY <1>1, <1>3, EndedTurn, TurnAssumption DEF TurnTypeOK, Places
  <1> QED BY <1>1, <1>3, <1>4, EndedTurn DEF TurnInv

LEMMA FailsKeeps ==
  ASSUME TurnInv, Fails
  PROVE  TurnInv'
  <1>1. TurnTypeOK /\ Published /\ at' = "idle" /\ EndsTurn
    BY DEF TurnInv, Fails, EndsTurn
  <1>2. /\ [content |-> Content, replay |-> NoReplay] \in Messages
        /\ [content |-> Content, replay |-> NoReplay].replay = NoReplay
    BY <1>1, ContentIsTyped DEF Messages
  <1>3. Serves([content |-> Content, replay |-> NoReplay], NoNative)
    BY <1>2, ForeignServes
  <1>4. /\ history' \in Seq(Messages) /\ origin' \in Seq(Origins \cup {NoNative})
        /\ Len(history') = Len(origin') /\ HistoryServes'
    <2>1. CASE Keeps(NoReplay, NoNative)
      BY <1>1, <1>2, <1>3, <2>1, KeepingServes DEF TurnInv, Keeps
    <2>2. CASE UNCHANGED <<history, origin>>
      BY <1>1, <2>2, SameHistory DEF TurnInv, TurnTypeOK
    <2> QED BY <2>1, <2>2 DEF Fails
  <1>5. TurnTypeOK'
    BY <1>1, <1>4, EndedTurn, TurnAssumption DEF TurnTypeOK, Places
  <1> QED BY <1>1, <1>4, <1>5, EndedTurn DEF TurnInv

LEMMA StutterKeeps ==
  ASSUME TurnInv, UNCHANGED vars
  PROVE  TurnInv'
  BY DEF TurnInv, TurnTypeOK, Gathered, Published, Streams, TextsAreWhole, HistoryServes,
         Serves, vars, Open, Delivered, BlockOf, Presentable

LEMMA StepInv == TurnInv /\ [Next]_vars => TurnInv'
  <1> SUFFICES ASSUME TurnInv, [Next]_vars
               PROVE  TurnInv'
    OBVIOUS
  <1>1. CASE Generate
    BY <1>1, GenerateKeeps
  <1>2. ASSUME NEW type \in Types, NEW signed \in BOOLEAN, NEW object \in BOOLEAN,
               Starts(type, IF signed THEN Len(native) + 1 ELSE Unsigned, object)
        PROVE  TurnInv'
    <2>1. (IF signed THEN Len(native) + 1 ELSE Unsigned) \in Nat
      BY DEF TurnInv, TurnTypeOK, Unsigned
    <2> QED BY <1>2, <2>1, StartsKeeps
  <1>3. ASSUME NEW i \in DOMAIN native, Delta(i) \/ TextEnds(i) \/ CallEnds(i)
        PROVE  TurnInv'
    BY <1>3, DeltaKeeps, TextEndsKeeps, CallEndsKeeps
  <1>4. ASSUME NEW stop \in StopReasons, NEW overflow \in BOOLEAN, Done(stop, overflow)
        PROVE  TurnInv'
    BY <1>4, DoneKeeps
  <1>5. CASE Fails
    BY <1>5, FailsKeeps
  <1>6. CASE UNCHANGED vars
    BY <1>6, StutterKeeps
  <1> QED BY <1>1, <1>2, <1>3, <1>4, <1>5, <1>6 DEF Next

------------------------------------------------------------------------------

\* In every reachable state the conversation has its types, open calls have gathered their
\* own pieces, what is published is what ended, and every kept message is worth something.
THEOREM TurnInvariance == Spec => []TurnInv
  BY InitInv, StepInv, PTL DEF Spec

\* The conversation's state has its type.
THEOREM TypesHold == Spec => []TypeOK
  <1>1. TurnInv => TypeOK
    BY DEF TurnInv, TurnTypeOK, TypeOK, Natives
  <1> QED BY <1>1, TurnInvariance, PTL

\* However the calls of a turn interleave, each is published with its own pieces in their
\* order, and only arguments that are no object end a turn (toStreamChunks).
THEOREM ArgumentsHold == Spec => []ArgumentsAreVerbatim
  <1>1. TurnInv => ArgumentsAreVerbatim
    <2> SUFFICES ASSUME TurnInv PROVE ArgumentsAreVerbatim
      OBVIOUS
    <2>1. ASSUME NEW i \in DOMAIN native, native[i].type = "tool-call", blocks[i] # Missing
          PROVE  blocks[i].arguments = Delivered(i)
      <3>1. i \in Indices
        BY DomainFacts DEF TurnInv
      <3>2. blocks[i] = BlockOf(i)
        BY <2>1, <3>1 DEF TurnInv, Published
      <3> QED BY <2>1, <3>2 DEF BlockOf
    <2>2. at = "INVALID_REQUEST" => \E i \in DOMAIN native :
              native[i].type = "tool-call" /\ native[i].ended /\ ~native[i].object
      BY DEF TurnInv, Streams, Presentable
    <2> QED BY <2>1, <2>2 DEF ArgumentsAreVerbatim
  <1> QED BY <1>1, TurnInvariance, PTL

\* No turn the adapter produced makes a later request fail on its history (toPiContext).
THEOREM ConversationsContinue == Spec => []ConversationContinues
  <1>1. TurnInv => ConversationContinues
    BY DEF TurnInv, HistoryServes, ConversationContinues
  <1> QED BY <1>1, TurnInvariance, PTL

\* A completed turn comes back to the model block by block, with its signatures, arguments
\* and stop reason (toReplayState and toPiAssistant).
THEOREM RoundTripsHold == Spec => []TurnsRoundTrip
  <1>1. TurnInv => TurnsRoundTrip
    BY DEF TurnInv, HistoryServes, Serves, TurnsRoundTrip
  <1> QED BY <1>1, TurnInvariance, PTL
================================================================================
