-------------------------- MODULE ControlPlane_proofs --------------------------
(***************************************************************************)
(* For any set of references and any number of calls: the Connect card     *)
(* tells what the credential is.                                           *)
(***************************************************************************)
EXTENDS ControlPlane, TLAPS

\* A call that reads the status: it is under way, at the seam, or answered.
IsRead(c) ==
    /\ call[c].kind = "status" /\ call[c].at \in {"sent", "describing", "replied"}
    /\ call[c].at = "replied" => call[c].reply \in {"yes", "no", "error"}

\* A call that tests: it never touches the store.
IsTest(c) ==
    /\ call[c].at \in {"sent", "key", "fetch", "replied"}
    /\ call[c].at = "sent" => call[c].kind = "doctor"
    /\ call[c].at = "replied" => call[c].reply \in {"outcome", "error"}

\* Each handler of the card waits for a call of its own, of the kind it began; a card that
\* has left waits for nothing.
Handlers ==
    /\ reading # None => shown /\ reading # acting /\ IsRead(reading)
    /\ acting # None => shown /\ call[acting].at # "free"
    /\ doing = "idle" <=> acting = None
    /\ doing = "testing" => IsTest(acting)
    /\ doing = "refreshing" => IsRead(acting)
    /\ trusted => shown

\* While a mount read is out, the card says nothing yet, and nothing that could change the
\* credential was begun beside it; otherwise the card is not trusted.
OneWriter == trusted /\ reading # None => phase = "loading" /\ doing \in {"idle", "testing"}

\* What a trusted card's read has seen so far is what there is: the seam looks for the
\* reference the plugin reads, and an answer is the credential's state.
ReadIsCurrent(c) ==
    /\ call[c].at = "describing" => call[c].ref = apiKeyEnv
    /\ captured /\ call[c].reply = "yes" => Configured
    /\ captured /\ call[c].reply = "no" => ~Configured

ReadsAreCurrent ==
    trusted => /\ reading # None => ReadIsCurrent(reading)
               /\ doing = "refreshing" => ReadIsCurrent(acting)

\* The card tells the credential, also while it tests.
PhaseIsCurrent ==
    /\ trusted /\ captured /\ ~notice /\ phase # "loading" /\ doing \in {"idle", "testing"}
    => (phase = "connected") = Configured

CardInv == TypeOK /\ Handlers /\ OneWriter /\ ReadsAreCurrent /\ PhaseIsCurrent

------------------------------------------------------------------------------

USE DEF Kinds, Steps, Replies, None

LEMMA FreeTypes ==
  /\ Free \in [at: Steps, kind: Kinds, ref: Refs, reply: Replies]
  /\ Free.at = "free" /\ Free.kind = "status" /\ Free.reply = "none"
  BY ControlAssumption DEF Free, AnyRef

LEMMA CallTypes ==
  ASSUME TypeOK, NEW c \in Calls
  PROVE  /\ call[c].at \in Steps /\ call[c].kind \in Kinds /\ call[c].ref \in Refs
         /\ call[c].reply \in Replies
  BY DEF TypeOK

\* A call is a number that is not None.
LEMMA CallsAreNoNone == None \notin Calls
  BY ControlAssumption

\* What becomes of a call that is asked, answered, moved on, or abandoned.
LEMMA RequestFacts ==
  ASSUME TypeOK, NEW c \in Calls, NEW kind \in Kinds, Request(c, kind)
  PROVE  /\ call' \in [Calls -> [at: Steps, kind: Kinds, ref: Refs, reply: Replies]]
         /\ call'[c].at = "sent" /\ call'[c].kind = kind /\ call'[c].reply = "none"
         /\ \A d \in Calls \ {c} : call'[d] = call[d]
  BY FreeTypes DEF TypeOK, Request, Free

LEMMA ReplyFacts ==
  ASSUME TypeOK, NEW c \in Calls, NEW r \in Replies, Reply(c, r)
  PROVE  /\ call' \in [Calls -> [at: Steps, kind: Kinds, ref: Refs, reply: Replies]]
         /\ Awaited(c) => /\ call'[c].at = "replied" /\ call'[c].kind = "status"
                          /\ call'[c].reply = r
         /\ \A d \in Calls \ {c} : call'[d] = call[d]
  BY FreeTypes DEF TypeOK, Reply, Free

LEMMA AtHostFacts ==
  ASSUME TypeOK, NEW c \in Calls, NEW step \in Steps, AtHost(c, step)
  PROVE  /\ call' \in [Calls -> [at: Steps, kind: Kinds, ref: Refs, reply: Replies]]
         /\ call'[c].at = step /\ call'[c].kind = call[c].kind
         /\ call'[c].ref = apiKeyEnv /\ call'[c].reply = call[c].reply
         /\ \A d \in Calls \ {c} : call'[d] = call[d]
  BY DEF TypeOK, AtHost

LEMMA StepFacts ==
  ASSUME TypeOK, NEW c \in Calls, NEW step \in Steps,
         call' = [call EXCEPT ![c].at = step]
  PROVE  /\ call' \in [Calls -> [at: Steps, kind: Kinds, ref: Refs, reply: Replies]]
         /\ call'[c].at = step /\ call'[c].kind = call[c].kind
         /\ call'[c].ref = call[c].ref /\ call'[c].reply = call[c].reply
         /\ \A d \in Calls \ {c} : call'[d] = call[d]
  BY DEF TypeOK

LEMMA AbandonedTypes ==
  ASSUME TypeOK, NEW c \in Calls
  PROVE  Abandoned(c) \in [at: Steps, kind: Kinds, ref: Refs, reply: Replies]
  BY FreeTypes DEF TypeOK, Abandoned

------------------------------------------------------------------------------
(* Who the card does not wait for.                                         *)

LEMMA NoticedFacts ==
  ASSUME Noticed
  PROVE  /\ trusted' \in BOOLEAN
         /\ trusted' => trusted /\ apiKeyEnv' = apiKeyEnv /\ Configured' = Configured
  BY DEF Noticed

\* A step that leaves the card and its calls alone, and that a trusted card would not
\* notice, breaks nothing.
LEMMA Bystander ==
  ASSUME Handlers, OneWriter, ReadsAreCurrent, PhaseIsCurrent,
         UNCHANGED <<captured, cardVars>>,
         trusted' => trusted /\ apiKeyEnv' = apiKeyEnv /\ Configured' = Configured,
         reading # None => call'[reading] = call[reading],
         acting # None => call'[acting] = call[acting]
  PROVE  Handlers' /\ OneWriter' /\ ReadsAreCurrent' /\ PhaseIsCurrent'
  <1> USE DEF cardVars
  <1>1. Handlers'
    BY DEF Handlers, IsRead, IsTest
  <1>2. OneWriter'
    BY DEF OneWriter
  <1>3. ReadsAreCurrent'
    BY DEF ReadsAreCurrent, ReadIsCurrent, Handlers
  <1>4. PhaseIsCurrent'
    BY DEF PhaseIsCurrent
  <1> QED BY <1>1, <1>2, <1>3, <1>4

LEMMA PluginSteps ==
  ASSUME CardInv, PluginMounts \/ PluginUnmounts \/ SourceChanges \/ RivalWrites
  PROVE  CardInv'
  <1>1. TypeOK'
    <2> USE DEF cardVars, pluginVars
    <2>1. CASE PluginMounts \/ PluginUnmounts
      BY <2>1 DEF CardInv, TypeOK, PluginMounts, PluginUnmounts, Plugin!Mounts, Plugin!Unmounts
    <2>2. CASE SourceChanges
      BY <2>2, NoticedFacts DEF CardInv, TypeOK, SourceChanges, Plugin!Changes
    <2>3. CASE RivalWrites
      <3>1. store' \in [Refs -> BOOLEAN]
        BY <2>3 DEF CardInv, TypeOK, RivalWrites
      <3> QED BY <2>3, <3>1, NoticedFacts DEF CardInv, TypeOK, RivalWrites
    <2> QED BY <2>1, <2>2, <2>3
  <1>2. CASE PluginMounts
    <2>1. trusted' = FALSE /\ UNCHANGED <<call, cardVars>>
      BY <1>2 DEF PluginMounts
    <2> QED BY <1>1, <2>1 DEF CardInv, Handlers, IsRead, IsTest, OneWriter, ReadsAreCurrent,
                              PhaseIsCurrent, cardVars
  <1>3. CASE PluginUnmounts
    <2>1. /\ UNCHANGED <<captured, cardVars, call, trusted, apiKeyEnv, store>>
          /\ Configured' = Configured
      BY <1>3 DEF PluginUnmounts, Plugin!Unmounts, Configured
    <2> QED BY <1>1, <2>1, Bystander DEF CardInv
  <1>4. CASE SourceChanges \/ RivalWrites
    <2>1. UNCHANGED <<captured, cardVars, call>> /\ Noticed
      BY <1>4 DEF SourceChanges, RivalWrites
    <2> QED BY <1>1, <2>1, Bystander, NoticedFacts DEF CardInv
  <1> QED BY <1>2, <1>3, <1>4

------------------------------------------------------------------------------
(* The host side.                                                          *)

\* A step of call c that leaves the card, the plugin and the store alone keeps the
\* invariant when it keeps what is known of c.
LEMMA HostStep ==
  ASSUME CardInv, NEW c \in Calls,
         UNCHANGED <<pluginVars, hostSide, trusted>>,
         call' \in [Calls -> [at: Steps, kind: Kinds, ref: Refs, reply: Replies]],
         \A d \in Calls \ {c} : call'[d] = call[d],
         c = reading => IsRead(c)' /\ (trusted => ReadIsCurrent(c)'),
         c = acting /\ doing = "refreshing" => IsRead(c)' /\ (trusted => ReadIsCurrent(c)'),
         c = acting /\ doing = "testing" => IsTest(c)',
         c = acting => call'[c].at # "free"
  PROVE  CardInv'
  <1> USE DEF pluginVars, hostSide, cardVars
  <1>1. /\ reading \in Calls \cup {None} /\ acting \in Calls \cup {None}
        /\ Handlers /\ OneWriter /\ ReadsAreCurrent /\ PhaseIsCurrent
    BY DEF CardInv, TypeOK
  <1>2. TypeOK'
    BY DEF CardInv, TypeOK
  <1>3. Configured' = Configured
    BY DEF Configured
  <1>4. ASSUME NEW d \in Calls, d # c
        PROVE  /\ IsRead(d)' = IsRead(d) /\ IsTest(d)' = IsTest(d)
               /\ ReadIsCurrent(d)' = ReadIsCurrent(d)
    <2>1. call'[d] = call[d]
      BY <1>4
    <2> QED BY <1>3, <2>1 DEF IsRead, IsTest, ReadIsCurrent
  <1>5. /\ reading # None => IsRead(reading)'
        /\ reading # None /\ trusted => ReadIsCurrent(reading)'
    BY <1>1, <1>4 DEF Handlers, ReadsAreCurrent
  <1>6. /\ doing = "testing" => IsTest(acting)'
        /\ doing = "refreshing" => IsRead(acting)'
        /\ doing = "refreshing" /\ trusted => ReadIsCurrent(acting)'
    BY <1>1, <1>4 DEF Handlers, ReadsAreCurrent
  <1>7. acting # None => call'[acting].at # "free"
    BY <1>1 DEF Handlers
  <1>8. Handlers'
    <2>1. reading' = reading /\ acting' = acting /\ doing' = doing /\ shown' = shown
          /\ trusted' = trusted
      OBVIOUS
    <2> QED BY <1>1, <1>5, <1>6, <1>7, <2>1 DEF Handlers, IsRead, IsTest
  <1>9. OneWriter' /\ PhaseIsCurrent'
    BY <1>1, <1>3 DEF OneWriter, PhaseIsCurrent
  <1>10. ReadsAreCurrent'
    BY <1>5, <1>6 DEF ReadsAreCurrent, ReadIsCurrent, Configured
  <1> QED BY <1>2, <1>8, <1>9, <1>10 DEF CardInv

\* A call nobody waits for.
LEMMA Unawaited ==
  ASSUME CardInv, NEW c \in Calls, ~Awaited(c),
         UNCHANGED <<pluginVars, hostSide, trusted>>,
         call' \in [Calls -> [at: Steps, kind: Kinds, ref: Refs, reply: Replies]],
         \A d \in Calls \ {c} : call'[d] = call[d]
  PROVE  CardInv'
  BY HostStep DEF Awaited, CardInv

\* A call that may answer without saying anything of the credential.
LEMMA AnswersNothing ==
  ASSUME CardInv, NEW c \in Calls, NEW r \in {"error", "outcome", "refused"},
         Reply(c, r), UNCHANGED <<pluginVars, hostSide, trusted>>,
         c = reading \/ (c = acting /\ doing = "refreshing") => r = "error",
         c = acting /\ doing = "testing" => r # "refused"
  PROVE  CardInv'
  <1>1. /\ call' \in [Calls -> [at: Steps, kind: Kinds, ref: Refs, reply: Replies]]
        /\ Awaited(c) => /\ call'[c].at = "replied" /\ call'[c].kind = "status"
                         /\ call'[c].reply = r
        /\ \A d \in Calls \ {c} : call'[d] = call[d]
    BY ReplyFacts DEF CardInv
  <1>2. CASE Awaited(c)
    <2>1. r = "error" => IsRead(c)' /\ ReadIsCurrent(c)'
      BY <1>1, <1>2 DEF IsRead, ReadIsCurrent
    <2>2. r \in {"error", "outcome"} => IsTest(c)'
      BY <1>1, <1>2 DEF IsTest
    <2> QED BY <1>1, <1>2, <2>1, <2>2, HostStep
  <1>3. CASE ~Awaited(c)
    BY <1>1, <1>3, Unawaited
  <1> QED BY <1>2, <1>3

\* What is known of a call whose kind or place excludes one of the card's handlers.
LEMMA PlaceTells ==
  ASSUME CardInv, NEW c \in Calls
  PROVE  /\ c = reading \/ (c = acting /\ doing = "refreshing") =>
               /\ IsRead(c) /\ call[c].kind = "status" /\ (trusted => ReadIsCurrent(c))
               /\ call[c].at \notin {"storing", "key", "fetch"}
         /\ c = acting /\ doing = "testing" =>
               /\ IsTest(c) /\ call[c].at \notin {"describing", "storing"}
               /\ call[c].at = "sent" => call[c].kind = "doctor"
  BY CallsAreNoNone DEF CardInv, Handlers, ReadsAreCurrent, IsRead, IsTest

LEMMA ArrivesKeeps ==
  ASSUME CardInv, NEW c \in Calls, Arrives(c)
  PROVE  CardInv'
  <1>1. UNCHANGED <<pluginVars, hostSide, trusted>> /\ call[c].at = "sent"
    BY DEF Arrives
  <1>2. CASE Reply(c, "error")
    BY <1>1, <1>2, AnswersNothing
  <1>3. CASE AtHost(c, IF call[c].kind = "doctor" THEN "key" ELSE "describing")
    <2> DEFINE step == IF call[c].kind = "doctor" THEN "key" ELSE "describing"
    <2>1. /\ call' \in [Calls -> [at: Steps, kind: Kinds, ref: Refs, reply: Replies]]
          /\ call'[c].at = step /\ call'[c].kind = call[c].kind
          /\ call'[c].ref = apiKeyEnv /\ call'[c].reply = call[c].reply
          /\ \A d \in Calls \ {c} : call'[d] = call[d]
      <3>1. step \in Steps
        OBVIOUS
      <3> QED BY <1>3, <3>1, AtHostFacts DEF CardInv
    <2>2. apiKeyEnv' = apiKeyEnv /\ captured' = captured /\ Configured' = Configured
      BY <1>1 DEF pluginVars, hostSide, Configured
    <2>3. c = reading \/ (c = acting /\ doing = "refreshing") =>
              IsRead(c)' /\ (trusted => ReadIsCurrent(c)')
      BY <2>1, <2>2, PlaceTells DEF IsRead, ReadIsCurrent
    <2>4. c = acting /\ doing = "testing" => IsTest(c)'
      BY <1>1, <2>1, PlaceTells DEF IsTest
    <2>5. call'[c].at # "free"
      BY <2>1
    <2> QED BY <1>1, <2>1, <2>3, <2>4, <2>5, HostStep
  <1> QED BY <1>2, <1>3 DEF Arrives

LEMMA DescribedKeeps ==
  ASSUME CardInv, NEW c \in Calls, Described(c)
  PROVE  CardInv'
  <1>1. UNCHANGED <<pluginVars, hostSide, trusted>> /\ call[c].at = "describing"
    BY DEF Described
  <1>2. CASE Reply(c, "error")
    BY <1>1, <1>2, AnswersNothing
  <1>3. CASE /\ call[c].kind = "status"
             /\ Reply(c, IF captured /\ store[call[c].ref] THEN "yes" ELSE "no")
    <2> DEFINE answer == IF captured /\ store[call[c].ref] THEN "yes" ELSE "no"
    <2>1. /\ call' \in [Calls -> [at: Steps, kind: Kinds, ref: Refs, reply: Replies]]
          /\ Awaited(c) => /\ call'[c].at = "replied" /\ call'[c].kind = "status"
                           /\ call'[c].reply = answer
          /\ \A d \in Calls \ {c} : call'[d] = call[d]
      <3>1. answer \in Replies
        OBVIOUS
      <3> QED BY <1>3, <3>1, ReplyFacts DEF CardInv
    <2>2. /\ apiKeyEnv' = apiKeyEnv /\ captured' = captured
          /\ Configured' = store[apiKeyEnv]
      BY <1>1 DEF pluginVars, hostSide, Configured
    <2>3. c = reading \/ (c = acting /\ doing = "refreshing") =>
              IsRead(c)' /\ (trusted => ReadIsCurrent(c)')
      BY <1>1, <2>1, <2>2, PlaceTells DEF IsRead, ReadIsCurrent, Awaited
    <2>4. ~(c = acting /\ doing = "testing")
      BY <1>1, PlaceTells
    <2>5. c = acting => call'[c].at # "free"
      BY <2>1 DEF Awaited
    <2> QED BY <1>1, <2>1, <2>3, <2>4, <2>5, HostStep
  <1>4. CASE call[c].kind # "status" /\ Reply(c, "refused")
    BY <1>1, <1>4, AnswersNothing, PlaceTells
  <1>5. CASE call[c].kind # "status" /\ call' = [call EXCEPT ![c].at = "storing"]
    <2>1. /\ call' \in [Calls -> [at: Steps, kind: Kinds, ref: Refs, reply: Replies]]
          /\ call'[c].at = "storing" /\ \A d \in Calls \ {c} : call'[d] = call[d]
      BY <1>5, StepFacts DEF CardInv
    <2> QED BY <1>1, <1>5, <2>1, PlaceTells, HostStep
  <1> QED BY <1>2, <1>3, <1>4, <1>5 DEF Described

LEMMA DoctorKeeps ==
  ASSUME CardInv, NEW c \in Calls, DoctorSeam(c) \/ DoctorDeadline(c)
  PROVE  CardInv'
  <1>1. UNCHANGED <<pluginVars, hostSide, trusted>> /\ call[c].at \in {"key", "fetch"}
    BY DEF DoctorSeam, DoctorDeadline
  <1>2. ~(c = reading) /\ ~(c = acting /\ doing = "refreshing")
    BY <1>1, PlaceTells
  <1>3. CASE Reply(c, "outcome")
    BY <1>1, <1>2, <1>3, AnswersNothing
  <1>4. CASE call' = [call EXCEPT ![c].at = "fetch"]
    <2>1. /\ call' \in [Calls -> [at: Steps, kind: Kinds, ref: Refs, reply: Replies]]
          /\ call'[c].at = "fetch" /\ \A d \in Calls \ {c} : call'[d] = call[d]
      BY <1>4, StepFacts DEF CardInv
    <2>2. IsTest(c)'
      BY <2>1 DEF IsTest
    <2> QED BY <1>1, <1>2, <2>1, <2>2, HostStep
  <1> QED BY <1>3, <1>4 DEF DoctorSeam, DoctorDeadline

\* A write of the card's own changes the credential while the card is busy with it; any
\* other write is noticed.
LEMMA StoresKeeps ==
  ASSUME CardInv, NEW c \in Calls, Stores(c)
  PROVE  CardInv'
  <1>1. /\ call[c].at = "storing" /\ UNCHANGED <<pluginVars, captured, cardVars>>
        /\ NoticedUnlessOwn(c)
    BY DEF Stores
  <1>2. PICK r \in Replies : Reply(c, r)
    BY DEF Stores
  <1>3. /\ call' \in [Calls -> [at: Steps, kind: Kinds, ref: Refs, reply: Replies]]
        /\ Awaited(c) => call'[c].at = "replied"
        /\ \A d \in Calls \ {c} : call'[d] = call[d]
    BY <1>2, ReplyFacts DEF CardInv
  <1>4. c # reading /\ (c = acting => doing \notin {"idle", "refreshing", "testing"})
    BY <1>1, PlaceTells, CallsAreNoNone DEF CardInv, Handlers
  <1>5. TypeOK'
    <2>1. store' \in [Refs -> BOOLEAN]
      BY CallTypes DEF CardInv, TypeOK, Stores
    <2>2. trusted' \in BOOLEAN
      BY <1>1, NoticedFacts DEF NoticedUnlessOwn, CardInv, TypeOK
    <2> QED BY <1>1, <1>3, <2>1, <2>2 DEF CardInv, TypeOK, pluginVars, cardVars
  <1>6. reading \in Calls \cup {None} /\ acting \in Calls \cup {None}
    BY DEF CardInv, TypeOK
  <1>7. CASE c = acting
    <2>1. UNCHANGED trusted
      BY <1>1, <1>7 DEF NoticedUnlessOwn
    <2>2. trusted => reading = None
      BY <1>4, <1>7 DEF CardInv, OneWriter
    <2>3. reading # None => call'[reading] = call[reading]
      BY <1>3, <1>4, <1>6
    <2>4. Handlers'
      BY <1>1, <1>3, <1>4, <1>7, <2>1, <2>3
      DEF CardInv, Handlers, IsRead, IsTest, Awaited, cardVars
    <2>5. OneWriter' /\ ReadsAreCurrent' /\ PhaseIsCurrent'
      BY <1>1, <1>4, <1>7, <2>1, <2>2
      DEF OneWriter, ReadsAreCurrent, PhaseIsCurrent, cardVars
    <2> QED BY <1>5, <2>4, <2>5 DEF CardInv
  <1>8. CASE c # acting
    <2>1. /\ reading # None => call'[reading] = call[reading]
          /\ acting # None => call'[acting] = call[acting]
      BY <1>3, <1>4, <1>6, <1>8
    <2>2. trusted' => trusted /\ apiKeyEnv' = apiKeyEnv /\ Configured' = Configured
      BY <1>1, <1>8, NoticedFacts DEF NoticedUnlessOwn
    <2> QED BY <1>1, <1>5, <2>1, <2>2, Bystander DEF CardInv
  <1> QED BY <1>7, <1>8

------------------------------------------------------------------------------
(* The card side: no step of it changes the plugin or the store.           *)

cardSide == <<pluginVars, store, captured>>

\* What is known of a call that such a step leaves alone stays known.
LEMMA LeftAlone ==
  ASSUME UNCHANGED cardSide, NEW d \in Calls, call'[d] = call[d]
  PROVE  /\ Configured' = Configured
         /\ IsRead(d)' = IsRead(d) /\ IsTest(d)' = IsTest(d)
         /\ ReadIsCurrent(d)' = ReadIsCurrent(d)
  <1>1. Configured' = Configured /\ apiKeyEnv' = apiKeyEnv /\ captured' = captured
    BY DEF cardSide, pluginVars, Configured
  <1> QED BY <1>1 DEF IsRead, IsTest, ReadIsCurrent

\* A request that asks for the status has not seen anything that could be stale.
LEMMA AsksForStatus ==
  ASSUME TypeOK, NEW c \in Calls, Request(c, "status")
  PROVE  IsRead(c)' /\ ReadIsCurrent(c)'
  BY RequestFacts DEF IsRead, ReadIsCurrent

\* A request goes out on a call no handler waits for.
LEMMA FreshIsNew ==
  ASSUME CardInv, NEW c \in Calls, Fresh(c)
  PROVE  c # reading /\ c # acting
  BY FreeTypes, CallsAreNoNone DEF CardInv, Handlers, IsRead, Fresh

LEMMA MountsKeeps ==
  ASSUME CardInv, NEW c \in Calls, Mounts(c)
  PROVE  CardInv'
  <1>1. /\ TypeOK /\ Request(c, "status")
        /\ reading' = c /\ acting' = None /\ shown' /\ trusted' /\ phase' = "loading"
        /\ doing' = "idle" /\ notice' = FALSE /\ input' = FALSE
    BY DEF CardInv, Mounts
  <1>2. TypeOK'
    BY <1>1, RequestFacts DEF TypeOK, Mounts, pluginVars
  <1>3. IsRead(reading)' /\ ReadIsCurrent(reading)'
    BY <1>1, AsksForStatus DEF IsRead, ReadIsCurrent, Configured
  <1> QED BY <1>1, <1>2, <1>3, CallsAreNoNone
          DEF CardInv, Handlers, OneWriter, ReadsAreCurrent, PhaseIsCurrent

LEMMA UnmountsKeeps ==
  ASSUME CardInv, Unmounts
  PROVE  CardInv'
  <1>1. /\ TypeOK /\ reading' = None /\ acting' = None /\ trusted' = FALSE
        /\ doing' = "idle"
    BY DEF CardInv, Unmounts
  <1>2. call' \in [Calls -> [at: Steps, kind: Kinds, ref: Refs, reply: Replies]]
    BY <1>1, AbandonedTypes DEF TypeOK, Unmounts
  <1>3. TypeOK'
    BY <1>1, <1>2 DEF TypeOK, Unmounts, pluginVars
  <1> QED BY <1>1, <1>3 DEF CardInv, Handlers, OneWriter, ReadsAreCurrent, PhaseIsCurrent

LEMMA TypesKeeps ==
  ASSUME CardInv, Types
  PROVE  CardInv'
  <1>1. /\ input' = TRUE
        /\ UNCHANGED <<mounted, apiKeyEnv, store, captured, call, shown, phase, doing, notice,
                       reading, acting, trusted>>
    BY DEF Types, pluginVars
  <1>2. Configured' = Configured
    BY <1>1 DEF Configured
  <1>3. TypeOK' /\ Handlers'
    BY <1>1 DEF CardInv, TypeOK, Handlers, IsRead, IsTest
  <1>4. OneWriter' /\ ReadsAreCurrent' /\ PhaseIsCurrent'
    BY <1>1, <1>2 DEF CardInv, OneWriter, ReadsAreCurrent, ReadIsCurrent, PhaseIsCurrent
  <1> QED BY <1>3, <1>4 DEF CardInv

\* What every handler that begins has in common.
LEMMA StartsFacts ==
  ASSUME CardInv, NEW c \in Calls, NEW kind \in Kinds,
         NEW what \in {"connecting", "disconnecting", "testing"},
         Starts(c, kind, what), notice' \in BOOLEAN, trusted' \in BOOLEAN,
         trusted' => shown
  PROVE  /\ TypeOK' /\ reading' = reading /\ Configured' = Configured
         /\ captured' = captured /\ phase' = phase /\ doing = "idle" /\ doing' = what
         /\ reading # None => ReadIsCurrent(reading)' = ReadIsCurrent(reading)
         /\ call'[c].at = "sent" /\ call'[c].kind = kind
         /\ (what = "testing" => kind = "doctor") => Handlers'
  <1>1. /\ TypeOK /\ UNCHANGED cardSide /\ shown /\ doing = "idle"
        /\ shown' = shown /\ phase' = phase /\ input' = input /\ reading' = reading
        /\ doing' = what /\ acting' = c /\ Fresh(c) /\ Request(c, kind)
    BY DEF CardInv, Starts, cardSide
  <1>2. /\ call' \in [Calls -> [at: Steps, kind: Kinds, ref: Refs, reply: Replies]]
        /\ call'[c].at = "sent" /\ call'[c].kind = kind
        /\ \A d \in Calls \ {c} : call'[d] = call[d]
    BY <1>1, RequestFacts
  <1>3. TypeOK'
    BY <1>1, <1>2 DEF TypeOK, cardSide, pluginVars
  <1>4. reading # None => reading \in Calls /\ reading # c
    BY <1>1, FreshIsNew DEF TypeOK
  <1>5. reading # None => /\ IsRead(reading)' = IsRead(reading)
                          /\ ReadIsCurrent(reading)' = ReadIsCurrent(reading)
    <2>1. SUFFICES ASSUME reading # None
                   PROVE  /\ IsRead(reading)' = IsRead(reading)
                          /\ ReadIsCurrent(reading)' = ReadIsCurrent(reading)
      OBVIOUS
    <2>2. /\ call'[reading] = call[reading] /\ reading' = reading
          /\ captured' = captured /\ apiKeyEnv' = apiKeyEnv /\ Configured' = Configured
      BY <1>1, <1>2, <1>4, <2>1 DEF cardSide, pluginVars, Configured
    <2> QED BY <2>2 DEF IsRead, ReadIsCurrent
  <1>6. kind = "doctor" => IsTest(acting)'
    BY <1>1, <1>2 DEF IsTest
  <1>7. (what = "testing" => kind = "doctor") => Handlers'
    BY <1>1, <1>2, <1>4, <1>5, <1>6, CallsAreNoNone DEF CardInv, Handlers
  <1>8. Configured' = Configured /\ captured' = captured
    BY <1>1 DEF cardSide, pluginVars, Configured
  <1> QED BY <1>1, <1>2, <1>3, <1>5, <1>7, <1>8

LEMMA StartsKeep ==
  ASSUME CardInv, NEW c \in Calls, Connects(c) \/ Disconnects(c) \/ Tests(c)
  PROVE  CardInv'
  <1>1. CASE Connects(c) \/ Disconnects(c)
    <2>1. PICK kind \in {"connect", "disconnect"}, what \in {"connecting", "disconnecting"} :
             Starts(c, kind, what)
      BY <1>1 DEF Connects, Disconnects
    <2>2. notice' = FALSE /\ trusted' = (reading = None) /\ shown
      BY <1>1 DEF Connects, Disconnects, Starts
    <2>3. /\ TypeOK' /\ Handlers' /\ reading' = reading /\ doing' = what
      BY <2>1, <2>2, StartsFacts
    <2> QED BY <2>2, <2>3 DEF CardInv, OneWriter, ReadsAreCurrent, PhaseIsCurrent
  <1>2. CASE Tests(c)
    <2>1. Starts(c, "doctor", "testing") /\ notice' = notice /\ trusted' = trusted
      BY <1>2 DEF Tests
    <2>2. notice \in BOOLEAN /\ trusted \in BOOLEAN /\ (trusted => shown)
      BY DEF CardInv, TypeOK, Handlers
    <2>3. /\ TypeOK' /\ Handlers' /\ reading' = reading /\ Configured' = Configured
          /\ captured' = captured /\ phase' = phase /\ doing = "idle" /\ doing' = "testing"
          /\ reading # None => ReadIsCurrent(reading)' = ReadIsCurrent(reading)
      BY <2>1, <2>2, StartsFacts
    <2> QED BY <2>1, <2>3 DEF CardInv, OneWriter, ReadsAreCurrent, PhaseIsCurrent
  <1> QED BY <1>1, <1>2

------------------------------------------------------------------------------
(* What a call is answered.                                                *)

\* A read is answered with a status, which for a trusted card is the credential's, or
\* fails; a test is not answered with a change of the credential.
Answer(c, answer) ==
    /\ c = reading \/ (c = acting /\ doing = "refreshing") =>
          /\ answer \in {"yes", "no", "error"}
          /\ trusted /\ captured => /\ answer = "yes" => Configured
                                    /\ answer = "no" => ~Configured
    /\ c = acting /\ doing = "testing" => answer \in {"outcome", "error"}

LEMMA AnswersAreSo ==
  ASSUME CardInv, NEW c \in Calls
  PROVE  Answer(c, "error") /\ (call[c].at = "replied" => Answer(c, call[c].reply))
  BY PlaceTells DEF Answer, IsRead, IsTest, ReadIsCurrent

LEMMA AbandonedFacts ==
  ASSUME TypeOK, NEW c \in Calls, call' = [call EXCEPT ![c] = Abandoned(c)]
  PROVE  /\ call' \in [Calls -> [at: Steps, kind: Kinds, ref: Refs, reply: Replies]]
         /\ \A d \in Calls \ {c} : call'[d] = call[d]
  BY AbandonedTypes DEF TypeOK

\* A status is one of two things.
LEMMA ConfiguredType ==
  ASSUME TypeOK
  PROVE  Configured \in BOOLEAN
  BY DEF TypeOK, Configured

LEMMA MountReadKeeps ==
  ASSUME CardInv, NEW answer \in Replies, MountReadSettles(answer), Answer(reading, answer)
  PROVE  CardInv'
  <1>1. /\ TypeOK /\ UNCHANGED cardSide /\ reading \in Calls /\ reading # acting
        /\ reading' = None /\ call' = [call EXCEPT ![reading] = Abandoned(reading)]
        /\ Tell(answer) /\ notice' = (notice \/ answer = "error")
        /\ shown' = shown /\ input' = input /\ doing' = doing /\ acting' = acting
        /\ trusted' = trusted
    BY DEF CardInv, TypeOK, Handlers, MountReadSettles, cardSide
  <1>2. /\ call' \in [Calls -> [at: Steps, kind: Kinds, ref: Refs, reply: Replies]]
        /\ \A d \in Calls \ {reading} : call'[d] = call[d]
    BY <1>1, AbandonedFacts
  <1>3. TypeOK'
    BY <1>1, <1>2 DEF TypeOK, Tell, cardSide, pluginVars
  <1>4. Configured' = Configured /\ captured' = captured /\ apiKeyEnv' = apiKeyEnv
    BY <1>1 DEF cardSide, pluginVars, Configured
  <1>5. acting # None => call'[acting] = call[acting]
    BY <1>1, <1>2 DEF TypeOK
  <1>6. Handlers'
    BY <1>1, <1>5 DEF CardInv, Handlers, IsRead, IsTest
  <1>7. OneWriter' /\ ReadsAreCurrent'
    BY <1>1, <1>4, <1>5 DEF CardInv, Handlers, OneWriter, ReadsAreCurrent, ReadIsCurrent
  <1>8. PhaseIsCurrent'
    BY <1>1, <1>4, ConfiguredType DEF PhaseIsCurrent, Tell, Answer
  <1> QED BY <1>3, <1>6, <1>7, <1>8 DEF CardInv

\* The mount read while a handler ends or goes on: it is not the handler's call.
LEMMA ReadBeside ==
  ASSUME CardInv, UNCHANGED cardSide, reading' = reading, acting \in Calls,
         \A d \in Calls \ {acting} : call'[d] = call[d], reading # None
  PROVE  /\ shown /\ IsRead(reading)'
         /\ ReadIsCurrent(reading)' = ReadIsCurrent(reading)
  <1>1. reading \in Calls /\ reading # acting /\ shown /\ IsRead(reading)
    BY DEF CardInv, TypeOK, Handlers
  <1>2. /\ call'[reading] = call[reading] /\ captured' = captured /\ apiKeyEnv' = apiKeyEnv
        /\ Configured' = Configured
    BY <1>1 DEF cardSide, pluginVars, Configured
  <1> QED BY <1>1, <1>2 DEF IsRead, ReadIsCurrent

LEMMA ActionKeeps ==
  ASSUME CardInv, NEW answer \in Replies, acting # None, ActionSettles(answer),
         Answer(acting, answer)
  PROVE  CardInv'
  <1>1. /\ TypeOK /\ UNCHANGED cardSide /\ acting \in Calls
        /\ doing \in {"connecting", "disconnecting", "testing"} /\ input' = FALSE
        /\ shown' = shown /\ phase' = phase /\ reading' = reading /\ trusted' = trusted
    BY DEF CardInv, TypeOK, ActionSettles, cardSide
  <1>2. Configured' = Configured /\ captured' = captured
    BY <1>1 DEF cardSide, pluginVars, Configured
  <1>3. CASE answer \in {"connected", "disconnected"}
    <2>1. /\ Request(acting, "status") /\ doing' = "refreshing" /\ acting' = acting
          /\ notice' = notice
      BY <1>3 DEF ActionSettles
    <2>2. /\ call' \in [Calls -> [at: Steps, kind: Kinds, ref: Refs, reply: Replies]]
          /\ call'[acting].at = "sent" /\ \A d \in Calls \ {acting} : call'[d] = call[d]
      BY <1>1, <2>1, RequestFacts
    <2>3. TypeOK'
      BY <1>1, <2>1, <2>2 DEF TypeOK, cardSide, pluginVars
    <2>4. IsRead(acting)' /\ ReadIsCurrent(acting)'
      <3>1. call'[acting].kind = "status" /\ call'[acting].reply = "none"
        BY <1>1, <2>1, RequestFacts
      <3> QED BY <2>1, <2>2, <3>1 DEF IsRead, ReadIsCurrent
    <2>5. doing # "testing"
      BY <1>3 DEF Answer
    <2>6. trusted => reading = None
      BY <1>1, <2>5 DEF CardInv, OneWriter
    <2>7. Handlers'
      BY <1>1, <2>1, <2>2, <2>4, ReadBeside DEF CardInv, Handlers
    <2>8. OneWriter' /\ ReadsAreCurrent' /\ PhaseIsCurrent'
      BY <1>1, <2>1, <2>4, <2>6 DEF OneWriter, ReadsAreCurrent, PhaseIsCurrent
    <2> QED BY <2>3, <2>7, <2>8 DEF CardInv
  <1>4. CASE answer \notin {"connected", "disconnected"}
    <2>1. /\ doing' = "idle" /\ acting' = None
          /\ call' = [call EXCEPT ![acting] = Abandoned(acting)]
          /\ notice' = (notice \/ doing # "testing")
      BY <1>4 DEF ActionSettles, Finishes
    <2>2. /\ call' \in [Calls -> [at: Steps, kind: Kinds, ref: Refs, reply: Replies]]
          /\ \A d \in Calls \ {acting} : call'[d] = call[d]
      BY <1>1, <2>1, AbandonedFacts
    <2>3. TypeOK'
      BY <1>1, <2>1, <2>2 DEF TypeOK, cardSide, pluginVars
    <2>4. Handlers'
      BY <1>1, <2>1, <2>2, ReadBeside DEF CardInv, Handlers
    <2>5. OneWriter' /\ ReadsAreCurrent'
      BY <1>1, <2>1, <2>2, ReadBeside DEF CardInv, OneWriter, ReadsAreCurrent
    <2>6. PhaseIsCurrent'
      BY <1>1, <1>2, <2>1 DEF CardInv, PhaseIsCurrent
    <2> QED BY <2>3, <2>4, <2>5, <2>6 DEF CardInv
  <1> QED BY <1>3, <1>4

LEMMA RefreshKeeps ==
  ASSUME CardInv, NEW answer \in Replies, acting # None, RefreshSettles(answer),
         Answer(acting, answer)
  PROVE  CardInv'
  <1>1. /\ TypeOK /\ UNCHANGED cardSide /\ acting \in Calls /\ doing = "refreshing"
        /\ doing' = "idle" /\ acting' = None
        /\ call' = [call EXCEPT ![acting] = Abandoned(acting)]
        /\ shown' = shown /\ input' = input /\ reading' = reading /\ trusted' = trusted
        /\ answer = "error" => notice' = TRUE /\ phase' = phase
        /\ answer # "error" => Tell(answer) /\ notice' = notice
    BY DEF CardInv, TypeOK, RefreshSettles, Finishes, cardSide
  <1>2. Configured' = Configured /\ captured' = captured
    BY <1>1 DEF cardSide, pluginVars, Configured
  <1>3. /\ call' \in [Calls -> [at: Steps, kind: Kinds, ref: Refs, reply: Replies]]
        /\ \A d \in Calls \ {acting} : call'[d] = call[d]
    BY <1>1, AbandonedFacts
  <1>4. TypeOK'
    BY <1>1, <1>3 DEF TypeOK, Tell, cardSide, pluginVars
  <1>5. Handlers'
    BY <1>1, <1>3, ReadBeside DEF CardInv, Handlers
  <1>6. trusted => reading = None
    BY <1>1 DEF CardInv, OneWriter
  <1>7. OneWriter' /\ ReadsAreCurrent'
    BY <1>1, <1>6 DEF OneWriter, ReadsAreCurrent
  <1>8. PhaseIsCurrent'
    BY <1>1, <1>2, ConfiguredType DEF PhaseIsCurrent, Tell, Answer
  <1> QED BY <1>4, <1>5, <1>7, <1>8 DEF CardInv

LEMMA SettlesKeeps ==
  ASSUME CardInv, NEW c \in Calls, Answered(c) \/ Loses(c)
  PROVE  CardInv'
  <1>1. PICK answer \in Replies : Settles(c, answer) /\ Answer(c, answer)
    BY AnswersAreSo, CallTypes DEF Answered, Loses, CardInv
  <1> QED BY <1>1, CallsAreNoNone, MountReadKeeps, ActionKeeps, RefreshKeeps DEF Settles

------------------------------------------------------------------------------

LEMMA CardInit == Init => CardInv
  <1> SUFFICES ASSUME Init PROVE CardInv
    OBVIOUS
  <1>1. /\ reading = None /\ acting = None /\ doing = "idle" /\ trusted = FALSE
    BY DEF Init
  <1>2. TypeOK
    BY FreeTypes DEF Init, TypeOK, Plugin!Init
  <1> QED BY <1>1, <1>2 DEF CardInv, Handlers, OneWriter, ReadsAreCurrent, PhaseIsCurrent

LEMMA CardStep == CardInv /\ [Next]_vars => CardInv'
  <1> SUFFICES ASSUME CardInv, [Next]_vars PROVE CardInv'
    OBVIOUS
  <1>1. CASE \E c \in Calls : CallSteps(c)
    BY <1>1, ArrivesKeeps, DescribedKeeps, StoresKeeps, DoctorKeeps, SettlesKeeps DEF CallSteps
  <1>2. CASE \E c \in Calls : CardSteps(c)
    BY <1>2, MountsKeeps, StartsKeep DEF CardSteps
  <1>3. CASE Unmounts \/ Types
    BY <1>3, UnmountsKeeps, TypesKeeps
  <1>4. CASE PluginMounts \/ PluginUnmounts \/ SourceChanges \/ RivalWrites
    BY <1>4, PluginSteps
  <1>5. CASE UNCHANGED vars
    BY <1>5 DEF vars, pluginVars, cardVars, CardInv, TypeOK, Handlers, IsRead, IsTest, OneWriter,
                ReadsAreCurrent, ReadIsCurrent, PhaseIsCurrent, Configured
  <1> QED BY <1>1, <1>2, <1>3, <1>4, <1>5 DEF Next

\* The inductive invariant of the card and the calls it waits for: a trusted card has at
\* most one call that could tell it of the credential, and what that call has seen is
\* current.
THEOREM CardInvariance == Spec => []CardInv
  BY CardInit, CardStep, PTL DEF Spec

\* Every variable of the control plane keeps its type.
THEOREM TypesHold == Spec => []TypeOK
  <1>1. CardInv => TypeOK
    BY DEF CardInv
  <1> QED BY <1>1, CardInvariance, PTL

\* A card that has an answer, is not busy and shows no notice says what the credential is
\* (connect-card.tsx: handlers and mount read; web-routes.ts and control.ts: the seam's
\* reads), whatever requests are lost and whatever writes fail - provided that the seam
\* was mounted with a credentials service, that nobody but the card has changed the
\* credential, the reference or the plugin since it last asked, and that its mount read
\* was in before it acted (`captured` and `trusted`).
THEOREM CardTells == Spec => []CardTellsTheCredential
  <1>1. CardInv => CardTellsTheCredential
    BY DEF CardInv, PhaseIsCurrent, CardTellsTheCredential
  <1> QED BY <1>1, CardInvariance, PTL
================================================================================
