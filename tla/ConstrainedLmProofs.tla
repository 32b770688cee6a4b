------------------------ MODULE ConstrainedLmProofs ------------------------
(***************************************************************************)
(* Proofs about ConstrainedLm: its types and its five safety invariants,   *)
(* for every set of tokens, every tree of values and all lengths.  The     *)
(* invariant that carries them says, of the field at hand, that what is    *)
(* written of it and what is queued make up the user's value; and, of the  *)
(* order, that the reasoning is written with no field skipped, because the *)
(* processor skips fields only in the other phase, which writes none.      *)
(***************************************************************************)
EXTENDS ConstrainedLm, SequenceTheorems, TLAPS

\* What the injection has written and what it has queued is the user's value.
InjectionInv ==
    /\ injected # NoField =>
         /\ stage = "value" /\ injected = field
         /\ cfg.user[field] # NoValue /\ value # <<>>
         /\ value \in Seq(Tokens) /\ cfg.user[field] = value \o queue
    /\ stage = "value" /\ cfg.user[field] # NoValue /\ value # <<>> => injected # NoField
    /\ injected = NoField => queue = <<>>
    /\ cfg.user["caption"] = NoValue /\ cfg.user["genres"] = NoValue

\* The text of a caption is at hand only in a field of text.
TextInv == field \in Constrained => value \in Seq(Tokens)

NameInv ==
    /\ stage = "name" => named <= position
    /\ stage \in {"name", "think", "newline"} => value = <<>>

\* The phases: fields are skipped only where none is written.
PhaseInv ==
    /\ cfg.phase = "codes" <=> stage = "codes"
    /\ cfg.phase = "understand" => cfg.skip = {}

\* No user provides an empty value.
UserInv == \A f \in Fields : cfg.user[f] # <<>>

HasField(f) == \E i \in DOMAIN doc : doc[i].field = f

\* What is written before a field and before the end.
ProgressInv ==
    /\ stage \in {"think", "newline"} => doc = <<>>
    /\ field # NoField /\ Rank[field] > 1 => HasField("bpm")
    /\ field # NoField /\ Rank[field] > 2 => HasField("caption")
    /\ stage = "end" => HasField("bpm") /\ HasField("caption") /\ HasField("timesignature")

\* The codes count what is written, and never beyond the target.
CodesInv ==
    cfg.phase = "codes" =>
        /\ over = "no" => audio = codes
        /\ cfg.target # 0 /\ over = "no" => codes <= cfg.target
        /\ cfg.target # 0 => over # "cut"
        /\ cfg.target # 0 /\ over = "eos" => audio = cfg.target

IInv == /\ TypeOK /\ UserInv /\ InjectionInv /\ TextInv /\ NameInv /\ PhaseInv /\ ProgressInv /\ CodesInv
        /\ ValuesValid /\ UserVerbatim /\ InOrder

---------------------------------------------------------------------------
(* The order of the fields.                                                *)

\* With no field to skip, the fields follow each other one by one.
LEMMA NextLemma ==
    ASSUME cfg.skip = {}, NEW f \in Fields
    PROVE  /\ f = "timesignature" => NextField(f) = NoField
           /\ f # "timesignature" => /\ NextField(f) \in Fields
                                     /\ Rank[NextField(f)] = Rank[f] + 1
<1> DEFINE later == {g \in Fields \ cfg.skip : Rank[g] > Rank[f]}
<1>1. CASE f = "timesignature"
  BY <1>1 DEF NextField, Fields, Rank
<1>2. CASE f # "timesignature"
  <2>1. PICK n \in Fields : Rank[n] = Rank[f] + 1
    BY <1>2 DEF Fields, Rank
  <2>2. n \in later /\ \A h \in later : Rank[n] <= Rank[h]
    BY <2>1 DEF Fields, Rank
  <2>3. \A g \in later : (\A h \in later : Rank[g] <= Rank[h]) => g = n
    BY <2>2 DEF Fields, Rank
  <2> HIDE DEF later
  <2>4. (CHOOSE g \in later : \A h \in later : Rank[g] <= Rank[h]) = n
    BY <2>2, <2>3
  <2>5. NextField(f) = IF later = {} THEN NoField
                       ELSE CHOOSE g \in later : \A h \in later : Rank[g] <= Rank[h]
    BY DEF NextField, later
  <2> QED BY <1>2, <2>1, <2>2, <2>4, <2>5
<1> QED BY <1>1, <1>2

LEMMA RankLemma ==
    /\ Rank["bpm"] = 1 /\ Rank["caption"] = 2 /\ Rank["timesignature"] = 7
    /\ \A f \in Fields : /\ Rank[f] \in 1..7
                         /\ Rank[f] = 1 => f = "bpm"
                         /\ Rank[f] = 2 => f = "caption"
BY DEF Rank, Fields

\* What one more entry does: it is for the field at hand, with a value that is right
\* for it, and the field that follows is a later one or none.
LEMMA AppendLemma ==
    ASSUME IInv, field \in Fields, cfg' = cfg,
           NEW v \in Seq(Tokens) \cup {Text},
           cfg.user[field] # NoValue => v = cfg.user[field],
           field \in Constrained /\ cfg.user[field] = NoValue => v \in Values[field],
           doc' = Append(doc, [field |-> field, value |-> v, name |-> named]),
           field' # NoField => field' \in Fields /\ Rank[field'] > Rank[field]
    PROVE  /\ doc' \in Seq(Entries)
           /\ ValuesValid' /\ UserVerbatim' /\ InOrder'
           /\ \A f : HasField(f) \/ f = field => HasField(f)'
<1> DEFINE e == [field |-> field, value |-> v, name |-> named]
<1>1. e \in Entries
  BY DEF IInv, TypeOK, Entries
<1>2. doc' \in Seq(Entries)
  BY <1>1 DEF IInv, TypeOK
<1>3. /\ DOMAIN doc' = DOMAIN doc \cup {Len(doc) + 1}
      /\ doc'[Len(doc) + 1] = e
      /\ DOMAIN doc = 1..Len(doc) /\ Len(doc) \in Nat
      /\ \A i \in DOMAIN doc : doc'[i] = doc[i] /\ doc[i] \in Entries
  BY <1>1 DEF IInv, TypeOK
<1>4. e.field = field /\ e.value = v
  OBVIOUS
<1> HIDE DEF e
<1>5. ValuesValid'
  BY <1>3, <1>4 DEF IInv, ValuesValid
<1>6. UserVerbatim'
  BY <1>3, <1>4 DEF IInv, UserVerbatim
<1>7. \A f \in Fields : Rank[f] \in Nat
  BY DEF Fields, Rank
<1>8. field # NoField /\ \A i \in DOMAIN doc : doc[i].field \in Fields
  BY <1>3 DEF Fields, NoField, Entries
<1>9. InOrder'
  BY <1>3, <1>4, <1>7, <1>8 DEF IInv, InOrder
<1>10. ASSUME NEW f, HasField(f) \/ f = field
       PROVE  HasField(f)'
  BY <1>3, <1>4, <1>10 DEF HasField
<1> QED BY <1>2, <1>5, <1>6, <1>9, <1>10

\* The end of a field, whoever ends it.
LEMMA LeavesLemma ==
    ASSUME IInv, over = "no", stage = "value", cfg' = cfg, UNCHANGED <<codes, audio, over>>,
           NEW v \in Seq(Tokens) \cup {Text},
           cfg.user[field] # NoValue => v = cfg.user[field],
           field \in Constrained /\ cfg.user[field] = NoValue => v \in Values[field],
           doc' = Append(doc, [field |-> field, value |-> v, name |-> named]),
           stage' = NameOf(NextField(field)), field' = NextField(field),
           position' \in {0, 1}, value' = <<>>, named' = 0,
           injected' = NoField, queue' = <<>>,
           afterNewline' \in BOOLEAN, ending' \in BOOLEAN, captionTokens' \in 0..CaptionLimit
    PROVE  IInv'
<1> USE ConstantsAssumption
<1>1. /\ field \in Fields /\ cfg.skip = {} /\ cfg.phase = "understand"
      /\ cfg \in [phase : Phases, stop : BOOLEAN, marked : BOOLEAN,
                  user : [Fields -> Seq(Tokens) \cup {NoValue}],
                  target : {0} \cup {PerSecond * d : d \in Durations}, skip : SUBSET Fields]
  BY DEF IInv, TypeOK, PhaseInv, Phases
<1>2. /\ field = "timesignature" => field' = NoField /\ stage' = "end"
      /\ field # "timesignature" => /\ field' \in Fields /\ Rank[field'] = Rank[field] + 1
                                    /\ stage' = "name"
  BY <1>1, NextLemma DEF NameOf, Fields, NoField
<1>3. \A f \in Fields : Rank[f] \in 1..7
  BY RankLemma
<1>4. field' # NoField => field' \in Fields /\ Rank[field'] > Rank[field]
  BY <1>1, <1>2, <1>3
<1>5. /\ doc' \in Seq(Entries)
      /\ ValuesValid' /\ UserVerbatim' /\ InOrder'
      /\ \A f : HasField(f) \/ f = field => HasField(f)'
  BY <1>1, <1>4, AppendLemma
<1>6. /\ stage' \in Stages /\ field' \in Fields \cup {NoField}
      /\ stage' \in {"name", "value"} <=> field' # NoField
      /\ stage' \in {"name", "end"}
  BY <1>1, <1>2 DEF Stages, Fields, NoField
<1>7. TypeOK'
  <2>1. position' \in 0..(NameLength - 1) /\ named' \in 0..NameLength
    OBVIOUS
  <2>2. value' \in Seq(Tokens) \cup {Text} /\ queue' \in Seq(Tokens)
    OBVIOUS
  <2>3. codes' \in Nat /\ audio' \in Nat
    BY DEF TypeOK, IInv
  <2>4. over' \in {"no", "eos", "cut", "failed"} /\ injected' \in Fields \cup {NoField}
    OBVIOUS
  <2>5. doc' \in Seq(Entries)
    BY <1>5
  <2> QED BY <1>1, <1>6, <2>1, <2>2, <2>3, <2>4, <2>5 DEF TypeOK
<1>8. UserInv' /\ InjectionInv' /\ TextInv' /\ NameInv' /\ PhaseInv' /\ CodesInv'
  <2>1. UserInv' /\ InjectionInv'
    BY <1>1 DEF IInv, UserInv, InjectionInv
  <2>2. TextInv' /\ NameInv'
    BY <1>6 DEF TextInv, NameInv
  <2>3. PhaseInv' /\ CodesInv'
    BY <1>1, <1>6 DEF PhaseInv, CodesInv
  <2> QED BY <2>1, <2>2, <2>3
<1>9. ProgressInv'
  <2>1. Rank["bpm"] = 1 /\ Rank["caption"] = 2
    BY RankLemma
  <2>2. Rank[field] = 1 => field = "bpm"
    BY <1>1, RankLemma
  <2>3. Rank[field] = 2 => field = "caption"
    BY <1>1, RankLemma
  <2>4. Rank["timesignature"] = 7
    BY RankLemma
  <2>5. \A f : f = field => HasField(f)'
    BY <1>5
  <2>6. Rank[field] > 1 => HasField("bpm")'
    BY <1>1, <1>5, <1>6 DEF IInv, ProgressInv, Fields, NoField
  <2>7. Rank[field] > 2 => HasField("caption")'
    BY <1>1, <1>5, <1>6 DEF IInv, ProgressInv, Fields, NoField
  <2>8. stage' \notin {"think", "newline"}
    BY <1>6
  <2>9. field' # NoField => Rank[field'] = Rank[field] + 1
    BY <1>2
  <2>10. Rank[field] \in 1..7
    BY <1>1, <1>3
  <2>11. HasField("bpm")'
    <3>1. CASE Rank[field] = 1
      BY <3>1, <2>2, <2>5
    <3>2. CASE Rank[field] > 1
      BY <3>2, <2>6
    <3> QED BY <3>1, <3>2, <2>10
  <2>12. Rank[field] > 1 => HasField("caption")'
    <3>1. CASE Rank[field] = 2
      BY <3>1, <2>3, <2>5
    <3>2. CASE Rank[field] > 2
      BY <3>2, <2>7
    <3> QED BY <3>1, <3>2, <2>10
  <2>13. stage' = "end" => HasField("caption")' /\ HasField("timesignature")'
    <3> SUFFICES ASSUME stage' = "end" PROVE HasField("caption")' /\ HasField("timesignature")'
      OBVIOUS
    <3>1. field = "timesignature"
      BY <1>2, <1>6
    <3> QED BY <3>1, <2>4, <2>5, <2>7
  <2>14. field' # NoField /\ Rank[field'] > 2 => HasField("caption")'
    BY <2>9, <2>10, <2>12
  <2> QED BY <2>8, <2>11, <2>13, <2>14 DEF ProgressInv
<1> QED BY <1>5, <1>7, <1>8, <1>9 DEF IInv

---------------------------------------------------------------------------
(* The steps.                                                              *)

\* A step that writes no entry and stays in its field keeps what is said of them.
LEMMA KeepsLemma ==
    ASSUME IInv, cfg' = cfg, doc' = doc, field' = field
    PROVE  /\ ValuesValid' /\ UserVerbatim' /\ InOrder'
           /\ \A f : HasField(f)' <=> HasField(f)
<1>1. ValuesValid'
  BY DEF IInv, ValuesValid
<1>2. UserVerbatim'
  BY DEF IInv, UserVerbatim
<1>3. InOrder'
  BY DEF IInv, InOrder
<1>4. \A f : HasField(f)' <=> HasField(f)
  BY DEF HasField
<1> QED BY <1>1, <1>2, <1>3, <1>4

\* A generation begins with nothing written and nothing queued.
LEMMA ConfigureLemma ==
    ASSUME IInv, NEW c, Configure(c),
           c \in [phase : Phases, stop : BOOLEAN, marked : BOOLEAN,
                  user : [Fields -> Seq(Tokens) \cup {NoValue}],
                  target : {0} \cup {PerSecond * d : d \in Durations}, skip : SUBSET Fields],
           c.phase = "codes" => c.marked,
           c.phase = "understand" => c.skip = {},
           c.user["caption"] = NoValue, c.user["genres"] = NoValue,
           \A f \in Fields : c.user[f] # <<>>
    PROVE  IInv'
<1> USE ConstantsAssumption DEF Configure, Reset, CaptionReset
<1>1. TypeOK'
  <2>1. /\ position' \in 0..(NameLength - 1) /\ named' \in 0..NameLength
        /\ captionTokens' \in 0..CaptionLimit
    OBVIOUS
  <2>2. /\ stage' \in Stages /\ field' = NoField /\ ~(stage' \in {"name", "value"})
    BY DEF Stages
  <2>3. doc' \in Seq(Entries) /\ queue' \in Seq(Tokens) /\ value' \in Seq(Tokens) \cup {Text}
    OBVIOUS
  <2> QED BY <2>1, <2>2, <2>3 DEF TypeOK, NoField
<1>2. UserInv' /\ InjectionInv' /\ TextInv' /\ NameInv'
  BY DEF UserInv, InjectionInv, TextInv, NameInv, NoField, Constrained
<1>3. PhaseInv' /\ CodesInv'
  <2>1. c.phase \in {"understand", "codes"}
    BY DEF Phases
  <2>2. cfg' = c /\ codes' = 0 /\ audio' = 0 /\ over' = "no"
    OBVIOUS
  <2>3. c.target \in Nat
    BY DEF TypeOK
  <2>4. stage' = "codes" <=> c.phase = "codes"
    BY <2>1
  <2> QED BY <2>1, <2>2, <2>3, <2>4 DEF PhaseInv, CodesInv
<1>4. ProgressInv' /\ ValuesValid' /\ UserVerbatim' /\ InOrder'
  BY DEF ProgressInv, ValuesValid, UserVerbatim, InOrder
<1> QED BY <1>1, <1>2, <1>3, <1>4 DEF IInv

LEMMA InitLemma == Init => IInv
<1> SUFFICES ASSUME Init PROVE IInv
  OBVIOUS
<1> USE ConstantsAssumption DEF Init
<1>1. cfg = [phase |-> "understand", stop |-> FALSE, marked |-> FALSE, user |-> Nothing,
             target |-> 0, skip |-> {}]
  BY DEF Idle, Config
<1>2. Nothing \in [Fields -> Seq(Tokens) \cup {NoValue}]
  BY DEF Nothing
<1>3. TypeOK
  <2>1. doc \in Seq(Entries) /\ queue \in Seq(Tokens) /\ value \in Seq(Tokens) \cup {Text}
    OBVIOUS
  <2>2. captionTokens \in 0..CaptionLimit /\ position \in 0..(NameLength - 1)
        /\ named \in 0..NameLength
    OBVIOUS
  <2>3. cfg \in [phase : Phases, stop : BOOLEAN, marked : BOOLEAN,
                 user : [Fields -> Seq(Tokens) \cup {NoValue}],
                 target : {0} \cup {PerSecond * d : d \in Durations}, skip : SUBSET Fields]
    BY <1>1, <1>2 DEF Phases
  <2> QED BY <2>1, <2>2, <2>3 DEF TypeOK, Stages, NoField
<1>4. NoValue # <<>>
  <2>1. <<>> \in Seq(Tokens)
    OBVIOUS
  <2>2. NoValue \notin Seq(Tokens)
    OBVIOUS
  <2> QED BY <2>1, <2>2, Zenon
<1>5. UserInv /\ InjectionInv /\ TextInv /\ NameInv
  BY <1>1, <1>4 DEF UserInv, InjectionInv, TextInv, NameInv, NoField, Constrained, Nothing, Fields
<1>6. PhaseInv /\ CodesInv
  BY <1>1 DEF PhaseInv, CodesInv
<1>7. ProgressInv /\ ValuesValid /\ UserVerbatim /\ InOrder
  BY DEF ProgressInv, ValuesValid, UserVerbatim, InOrder
<1> QED BY <1>3, <1>5, <1>6, <1>7 DEF IInv

\* A number of codes that is within the limit of tokens is within the target only
\* if the limit exceeds the target, as it does.
LEMMA LimitLemma ==
    ASSUME TypeOK, cfg.target # 0
    PROVE  MaxTokens \in Nat /\ cfg.target \in Nat /\ MaxTokens > cfg.target
<1> USE ConstantsAssumption
<1>1. PICK d \in Durations : cfg.target = PerSecond * d
  BY DEF TypeOK
<1>2. d \in Nat /\ d <= MaxDuration
  OBVIOUS
<1>3. \A a, b, p \in Nat : a <= b => p * a \in Nat /\ p * a <= p * b
  <2> SUFFICES ASSUME NEW a \in Nat, NEW b \in Nat, NEW p \in Nat, a <= b
               PROVE  p * a \in Nat /\ p * a <= p * b
    OBVIOUS
  <2>1. p * (b - a) \in Nat /\ p * a \in Nat
    OBVIOUS
  <2>2. p * b = p * a + p * (b - a)
    OBVIOUS
  <2> QED BY <2>1, <2>2
<1>4. cfg.target \in Nat /\ cfg.target <= PerSecond * MaxDuration
  BY <1>1, <1>2, <1>3
<1>5. PerSecond * MinDuration \in Nat /\ PerSecond * MinDuration <= PerSecond * MaxDuration
      /\ PerSecond * MaxDuration \in Nat
  BY <1>3
<1>6. MaxTokens = Clamped(cfg.target) + Slack
  BY DEF MaxTokens
<1>7. Clamped(cfg.target) \in Nat /\ Clamped(cfg.target) >= cfg.target
  BY <1>4, <1>5 DEF Clamped
<1> QED BY <1>4, <1>6, <1>7

\* A step inside a field or tag that ends nothing and writes no code.
LEMMA StaysLemma ==
    ASSUME IInv, UNCHANGED <<cfg, stage, field, position, codes, written, over>>,
           value' \in Seq(Tokens) \cup {Text}, queue' \in Seq(Tokens),
           injected' \in Fields \cup {NoField},
           afterNewline' \in BOOLEAN, ending' \in BOOLEAN, captionTokens' \in 0..CaptionLimit,
           stage = "value", TextInv', InjectionInv'
    PROVE  IInv'
<1>1. TypeOK'
  BY DEF IInv, TypeOK, written
<1>2. UserInv' /\ NameInv' /\ PhaseInv' /\ CodesInv'
  BY DEF IInv, UserInv, NameInv, PhaseInv, CodesInv, written
<1>3. /\ ValuesValid' /\ UserVerbatim' /\ InOrder'
      /\ \A f : HasField(f)' <=> HasField(f)
  BY KeepsLemma DEF written
<1>4. ProgressInv'
  BY <1>3 DEF IInv, ProgressInv, written
<1> QED BY <1>1, <1>2, <1>3, <1>4 DEF IInv

\* The generation ends and leaves everything else as it is.
LEMMA OverLemma ==
    ASSUME IInv, over = "no", over' \in {"eos", "cut", "failed"},
           UNCHANGED <<cfg, place, injection, caption, codes, written>>,
           stage = "codes" => over' = "failed"
    PROVE  IInv'
<1> USE DEF place, injection, caption, written
<1>1. TypeOK'
  BY DEF IInv, TypeOK
<1>2. UserInv' /\ InjectionInv' /\ TextInv' /\ NameInv' /\ PhaseInv' /\ CodesInv'
  BY DEF IInv, UserInv, InjectionInv, TextInv, NameInv, PhaseInv, CodesInv
<1>3. /\ ValuesValid' /\ UserVerbatim' /\ InOrder'
      /\ \A f : HasField(f)' <=> HasField(f)
  BY KeepsLemma
<1>4. ProgressInv'
  BY <1>3 DEF IInv, ProgressInv
<1> QED BY <1>1, <1>2, <1>3, <1>4 DEF IInv

\* The end of a value or a text: Leaves, in the actions that use it.
LEMMA EndsLemma ==
    ASSUME IInv, over = "no", stage = "value", NEW v \in Seq(Tokens) \cup {Text}, Leaves(v),
           UNCHANGED <<cfg, codes, audio, over>>,
           cfg.user[field] # NoValue => v = cfg.user[field],
           field \in Constrained /\ cfg.user[field] = NoValue => v \in Values[field],
           injected' = NoField, queue' = <<>>,
           CaptionReset \/ UNCHANGED caption
    PROVE  IInv'
<1>1. afterNewline' \in BOOLEAN /\ ending' \in BOOLEAN /\ captionTokens' \in 0..CaptionLimit
  <2>1. CASE CaptionReset
    <3>1. captionTokens' = 0 /\ CaptionLimit \in Nat
      BY <2>1, ConstantsAssumption DEF CaptionReset
    <3>2. afterNewline' \in BOOLEAN /\ ending' \in BOOLEAN
      BY <2>1, Zenon DEF CaptionReset
    <3> QED BY <3>1, <3>2
  <2>2. CASE UNCHANGED caption
    BY <2>2 DEF caption, IInv, TypeOK
  <2> QED BY <2>1, <2>2
<1> QED BY <1>1, LeavesLemma DEF Leaves, Enters

\* What is generated, not injected: nothing is queued, and a value that the user
\* provides is not begun.
LEMMA GeneratesLemma ==
    ASSUME IInv, Generates
    PROVE  /\ over = "no" /\ stage = "value" /\ injected = NoField /\ queue = <<>>
           /\ cfg.user[field] = NoValue
           /\ field \in Fields /\ cfg.phase = "understand"
BY DEF IInv, Generates, Writing, InjectionInv, TypeOK, PhaseInv, Phases

LEMMA WritesFixedLemma == IInv /\ WritesFixed => IInv'
<1> SUFFICES ASSUME IInv, WritesFixed PROVE IInv'
  OBVIOUS
<1> USE ConstantsAssumption
<1>1. /\ over = "no" /\ stage \in {"think", "newline", "name", "end"}
      /\ UNCHANGED <<cfg, injection, codes, doc, audio, over>>
      /\ injected = NoField /\ queue = <<>> /\ value \in Seq(Tokens) \cup {Text}
  BY DEF WritesFixed, IInv, TypeOK, InjectionInv
<1>2. cfg.phase = "understand" /\ position \in 0..(NameLength - 1) /\ NameLength >= 2
      /\ named \in 0..NameLength /\ captionTokens \in 0..CaptionLimit /\ CaptionLimit \in Nat
      /\ NameLength \in Nat
  BY <1>1 DEF IInv, TypeOK, PhaseInv, Phases
<1>3. named' \in 0..NameLength
  BY <1>1, <1>2 DEF WritesFixed, IInv, NameInv
<1>4. CASE ~Reached(stage, position + 1)
  <2>1. /\ position' = position + 1 /\ UNCHANGED <<stage, field, value, caption>>
        /\ position' \in 0..(NameLength - 1)
    BY <1>2, <1>4 DEF WritesFixed, Reached, Length
  <2>2. TypeOK'
    BY <1>1, <1>2, <1>3, <2>1 DEF IInv, TypeOK, caption, injection
  <2>3. UserInv' /\ InjectionInv' /\ TextInv' /\ PhaseInv' /\ CodesInv'
    BY <1>1, <1>2, <2>1 DEF IInv, UserInv, InjectionInv, TextInv, PhaseInv, CodesInv, injection
  <2>4. NameInv'
    BY <1>1, <1>2, <2>1 DEF IInv, NameInv, WritesFixed
  <2>5. /\ ValuesValid' /\ UserVerbatim' /\ InOrder'
        /\ \A f : HasField(f)' <=> HasField(f)
    BY <1>1, <2>1, KeepsLemma
  <2>6. ProgressInv'
    BY <1>1, <2>1, <2>5 DEF IInv, ProgressInv
  <2> QED BY <2>2, <2>3, <2>4, <2>5, <2>6 DEF IInv
<1>5. CASE Reached(stage, position + 1)
  <2>1. CaptionReset /\ position' = 0 /\ value' = <<>>
    BY <1>1, <1>5 DEF WritesFixed, Enters
  <2>2. /\ stage = "think" => stage' = "newline" /\ field' = NoField
        /\ stage = "newline" => stage' = "name" /\ field' = "bpm"
        /\ stage = "name" => stage' = "value" /\ field' = field
        /\ stage = "end" => stage' = "completed" /\ field' = NoField
    BY <1>1, <1>2, <1>5 DEF WritesFixed, Enters
  <2>3. /\ stage' \in Stages /\ field' \in Fields \cup {NoField}
        /\ stage' \in {"name", "value"} <=> field' # NoField
        /\ stage' \notin {"think", "end", "codes"}
    BY <1>1, <2>2 DEF IInv, TypeOK, Stages, Fields, NoField
  <2>4. TypeOK'
    <3>1. value' \in Seq(Tokens) \cup {Text}
      BY <2>1
    <3>2. position' \in 0..(NameLength - 1) /\ captionTokens' \in 0..CaptionLimit
      BY <1>2, <2>1 DEF CaptionReset
    <3> QED BY <1>1, <1>3, <2>1, <2>3, <3>1, <3>2 DEF IInv, TypeOK, CaptionReset, injection
  <2>5. UserInv' /\ InjectionInv' /\ TextInv' /\ PhaseInv' /\ CodesInv'
    BY <1>1, <1>2, <2>1, <2>3 DEF IInv, UserInv, InjectionInv, TextInv, PhaseInv, CodesInv, injection
  <2>6. NameInv'
    <3>1. stage' = "name" => named' = 0
      BY <1>1, <2>2 DEF WritesFixed
    <3> QED BY <2>1, <2>3, <3>1 DEF NameInv
  <2>7. /\ ValuesValid' /\ UserVerbatim'
        /\ \A f : HasField(f)' <=> HasField(f)
    BY <1>1 DEF IInv, ValuesValid, UserVerbatim, HasField
  <2>8. stage \in {"think", "newline"} => doc = <<>>
    BY DEF IInv, ProgressInv
  <2>9. InOrder'
    <3>1. CASE stage = "name"
      BY <1>1, <2>2, <3>1 DEF IInv, InOrder
    <3>2. CASE stage = "end"
      BY <1>1, <2>2, <3>2 DEF IInv, InOrder, NoField
    <3>3. CASE stage \in {"think", "newline"}
      BY <1>1, <2>8, <3>3 DEF InOrder
    <3> QED BY <1>1, <3>1, <3>2, <3>3
  <2>10. ProgressInv'
    <3>1. Rank["bpm"] = 1
      BY DEF Rank
    <3> QED BY <1>1, <2>2, <2>3, <2>7, <2>8, <3>1 DEF IInv, ProgressInv
  <2> QED BY <2>4, <2>5, <2>6, <2>7, <2>9, <2>10 DEF IInv
<1> QED BY <1>4, <1>5

\* Moving the head of a queue to the end of what is written leaves the whole
\* as it is.
LEMMA MoveLemma ==
    ASSUME NEW S, NEW v \in Seq(S), NEW q \in Seq(S), q # <<>>
    PROVE  /\ Append(v, Head(q)) \in Seq(S) /\ Append(v, Head(q)) # <<>>
           /\ v \o q = Append(v, Head(q)) \o Tail(q)
<1> DEFINE w == Append(v, Head(q))
           t == Tail(q)
<1>1. /\ w \in Seq(S) /\ w # <<>> /\ t \in Seq(S) /\ Head(q) = q[1]
      /\ Len(w) = Len(v) + 1 /\ Len(q) = Len(t) + 1
      /\ Len(v) \in Nat /\ Len(t) \in Nat
  OBVIOUS
<1>2. /\ \A i \in 1..Len(v) : w[i] = v[i]
      /\ w[Len(v) + 1] = q[1]
      /\ \A i \in 1..Len(t) : t[i] = q[i + 1]
  BY <1>1
<1> HIDE DEF w, t
<1>3. v \o q \in Seq(S) /\ w \o t \in Seq(S) /\ Len(v \o q) = Len(w \o t)
  <2>1. v \o q \in Seq(S) /\ Len(v \o q) = Len(v) + Len(q)
    BY <1>1
  <2>2. w \o t \in Seq(S) /\ Len(w \o t) = Len(w) + Len(t)
    BY <1>1
  <2> QED BY <1>1, <2>1, <2>2
<1>4. ASSUME NEW i \in 1..Len(v \o q)
      PROVE  (v \o q)[i] = (w \o t)[i]
  <2>1. CASE i <= Len(v)
    BY <1>1, <1>2, <2>1
  <2>2. CASE i = Len(v) + 1
    BY <1>1, <1>2, <2>2
  <2>3. CASE i > Len(v) + 1
    <3>1. i \in Nat /\ i - Len(w) \in 1..Len(t) /\ i - Len(w) + 1 = i - Len(v)
      BY <1>1, <2>3
    <3>2. (w \o t)[i] = t[i - Len(w)]
      BY <1>1, <2>3
    <3>3. (v \o q)[i] = q[i - Len(v)]
      BY <1>1, <2>3
    <3>4. t[i - Len(w)] = q[i - Len(w) + 1]
      BY <1>2, <3>1
    <3> QED BY <3>1, <3>2, <3>3, <3>4
  <2> QED BY <1>1, <1>3, <2>1, <2>2, <2>3
<1>5. v \o q = w \o t
  BY <1>3, <1>4, SeqEqual
<1> QED BY <1>1, <1>5 DEF w, t

LEMMA InjectionLemma == IInv /\ (StartsInjection \/ Injects \/ Injected) => IInv'
<1> SUFFICES ASSUME IInv, StartsInjection \/ Injects \/ Injected PROVE IInv'
  OBVIOUS
<1>1. over = "no" /\ stage = "value" /\ field \in Fields
  BY DEF StartsInjection, Injects, Injected, Writing, IInv, TypeOK
<1>2. afterNewline \in BOOLEAN /\ ending \in BOOLEAN /\ captionTokens \in 0..CaptionLimit
  BY DEF IInv, TypeOK
<1>3. ASSUME NEW q \in Seq(Tokens), q # <<>>
      PROVE  Head(q) \in Tokens /\ Tail(q) \in Seq(Tokens) /\ q = <<Head(q)>> \o Tail(q)
  BY <1>3
<1>4. ASSUME NEW v \in Seq(Tokens), NEW q \in Seq(Tokens), q # <<>>
      PROVE  /\ Append(v, Head(q)) \in Seq(Tokens) /\ Append(v, Head(q)) # <<>>
             /\ v \o q = Append(v, Head(q)) \o Tail(q)
  BY <1>4, MoveLemma
<1>5. CASE StartsInjection
  <2> DEFINE u == cfg.user[field]
  <2>1. /\ u \in Seq(Tokens) /\ u # <<>>
        /\ injected = NoField /\ queue = <<>> /\ value = <<>>
    <3>1. u # NoValue /\ injected = NoField /\ value = <<>>
      BY <1>5 DEF StartsInjection
    <3>2. u \in Seq(Tokens) \cup {NoValue}
      BY <1>1 DEF IInv, TypeOK
    <3>3. u # <<>>
      BY <1>1, <3>1 DEF IInv, UserInv
    <3> QED BY <3>1, <3>2, <3>3 DEF IInv, InjectionInv
  <2>2. /\ value' = <<Head(u)>> /\ queue' = Tail(u) /\ injected' = field
        /\ UNCHANGED <<cfg, stage, field, position, caption, codes, written, over>>
    BY <1>5 DEF StartsInjection
  <2>3. value' \in Seq(Tokens) /\ queue' \in Seq(Tokens) /\ u = value' \o queue' /\ value' # <<>>
    BY <1>3, <2>1, <2>2
  <2>4. InjectionInv' /\ TextInv'
    BY <1>1, <1>5, <2>2, <2>3 DEF StartsInjection, IInv, InjectionInv, TextInv, Fields, NoField
  <2> QED BY <1>1, <1>2, <2>2, <2>3, <2>4, StaysLemma DEF caption
<1>6. CASE Injects
  <2>1. /\ value \in Seq(Tokens) /\ queue \in Seq(Tokens) /\ queue # <<>>
        /\ injected # NoField /\ injected = field
        /\ cfg.user[field] # NoValue /\ cfg.user[field] = value \o queue
    BY <1>6 DEF Injects, IInv, InjectionInv, TypeOK
  <2>2. /\ value' = Append(value, Head(queue)) /\ queue' = Tail(queue)
        /\ UNCHANGED <<cfg, stage, field, position, injected, caption, codes, written, over>>
    BY <1>6 DEF Injects
  <2>3. /\ value' \in Seq(Tokens) /\ queue' \in Seq(Tokens) /\ value' # <<>>
        /\ value \o queue = value' \o queue'
    BY <1>3, <1>4, <2>1, <2>2
  <2>4. InjectionInv' /\ TextInv'
    BY <1>1, <2>1, <2>2, <2>3 DEF IInv, InjectionInv, TextInv
  <2> QED BY <1>1, <1>2, <2>1, <2>2, <2>3, <2>4, StaysLemma DEF caption
<1>7. CASE Injected
  <2>1. /\ value \in Seq(Tokens) /\ queue = <<>>
        /\ cfg.user[field] # NoValue /\ cfg.user[field] = value \o queue
    BY <1>7 DEF Injected, IInv, InjectionInv
  <2>2. value = cfg.user[field]
    BY <2>1
  <2>3. /\ Leaves(value) /\ injected' = NoField /\ queue' = <<>>
        /\ UNCHANGED <<cfg, caption, codes, audio, over>>
    BY <1>7, <2>1 DEF Injected
  <2> QED BY <1>1, <2>1, <2>2, <2>3, EndsLemma
<1> QED BY <1>5, <1>6, <1>7

LEMMA ValueLemma == IInv /\ (WritesValue \/ EndsValue) => IInv'
<1> SUFFICES ASSUME IInv, WritesValue \/ EndsValue PROVE IInv'
  OBVIOUS
<1>1. Generates /\ field \in Constrained
  BY DEF WritesValue, EndsValue
<1>2. /\ over = "no" /\ stage = "value" /\ injected = NoField /\ queue = <<>>
      /\ cfg.user[field] = NoValue /\ value \in Seq(Tokens)
      /\ afterNewline \in BOOLEAN /\ ending \in BOOLEAN /\ captionTokens \in 0..CaptionLimit
  BY <1>1, GeneratesLemma DEF IInv, TextInv, TypeOK
<1>3. CASE WritesValue
  <2>1. /\ value' \in Seq(Tokens)
        /\ UNCHANGED <<cfg, stage, field, position, injection, caption, codes, written, over>>
    BY <1>2, <1>3 DEF WritesValue
  <2>2. InjectionInv' /\ TextInv'
    BY <1>2, <2>1 DEF IInv, InjectionInv, TextInv, injection
  <2> QED BY <1>2, <2>1, <2>2, StaysLemma DEF caption, injection
<1>4. CASE EndsValue
  <2>1. /\ Leaves(value) /\ CaptionReset /\ value \in Values[field]
        /\ UNCHANGED <<cfg, injection, codes, audio, over>>
    BY <1>4 DEF EndsValue, Complete
  <2> QED BY <1>2, <2>1, EndsLemma DEF injection
<1> QED BY <1>3, <1>4

\* Free text: the caption and the genres.
LEMMA TextLemma ==
    IInv /\ (NamesNothing \/ WritesGenres \/ EndsGenres \/ EndsGenresEarly
             \/ \E nl \in BOOLEAN : WritesCaption(nl) \/ NamesFreely(nl)) => IInv'
<1> USE DEF injection
<1> SUFFICES ASSUME IInv,
                    NamesNothing \/ WritesGenres \/ EndsGenres \/ EndsGenresEarly
                    \/ \E nl \in BOOLEAN : WritesCaption(nl) \/ NamesFreely(nl)
             PROVE  IInv'
  OBVIOUS
<1>1. Generates /\ field \in {"caption", "genres"}
  BY DEF NamesNothing, WritesGenres, EndsGenres, EndsGenresEarly, WritesCaption, NamesFreely
<1>2. /\ over = "no" /\ stage = "value" /\ injected = NoField /\ queue = <<>>
      /\ cfg.user[field] = NoValue /\ field \notin Constrained
      /\ afterNewline \in BOOLEAN /\ ending \in BOOLEAN /\ captionTokens \in 0..CaptionLimit
  BY <1>1, GeneratesLemma DEF IInv, TypeOK, Constrained
<1>3. CaptionLimit \in Nat /\ Counted \in 0..CaptionLimit
  BY <1>2, ConstantsAssumption DEF Counted
<1>4. CASE WritesGenres \/ \E nl \in BOOLEAN : WritesCaption(nl) \/ NamesFreely(nl)
  <2>1. /\ value' = Text
        /\ UNCHANGED <<cfg, stage, field, position, injection, codes, written, over>>
    BY <1>4 DEF WritesGenres, WritesCaption, NamesFreely
  <2>2. captionTokens' \in 0..CaptionLimit
    BY <1>2, <1>3, <1>4 DEF WritesGenres, WritesCaption, NamesFreely, caption
  <2>3. afterNewline' \in BOOLEAN /\ ending' \in BOOLEAN
    BY <1>2, <1>4, Zenon DEF WritesGenres, WritesCaption, NamesFreely, caption
  <2>4. InjectionInv' /\ TextInv'
    BY <1>2, <2>1 DEF IInv, InjectionInv, TextInv
  <2> QED BY <1>2, <2>1, <2>2, <2>3, <2>4, StaysLemma
<1>5. CASE NamesNothing \/ EndsGenres
  <2>1. /\ Leaves(Text) /\ CaptionReset
        /\ UNCHANGED <<cfg, injection, codes, audio, over>>
    BY <1>5 DEF NamesNothing, EndsGenres
  <2> QED BY <1>2, <2>1, EndsLemma
<1>6. CASE EndsGenresEarly
  <2>1. /\ afterNewline' \in BOOLEAN /\ ending' \in BOOLEAN
    BY <1>6, Zenon DEF EndsGenresEarly, CaptionReset
  <2>2. captionTokens' \in 0..CaptionLimit
    BY <1>3, <1>6 DEF EndsGenresEarly, CaptionReset
  <2> QED BY <1>2, <1>6, <2>1, <2>2, LeavesLemma DEF EndsGenresEarly
<1> QED BY <1>4, <1>5, <1>6

\* The model names a field that comes after the caption.
LEMMA NamesFieldLemma == IInv /\ (\E nl \in BOOLEAN : NamesField(nl)) => IInv'
<1> SUFFICES ASSUME IInv, NEW nl \in BOOLEAN, NamesField(nl) PROVE IInv'
  OBVIOUS
<1> USE ConstantsAssumption
<1>1. PICK f \in Nameable : Enters("value", f)
  BY DEF NamesField
<1>2. /\ stage' = "value" /\ field' = f /\ position' = 0 /\ value' = <<>>
      /\ doc' = Append(doc, [field |-> field, value |-> Text, name |-> named])
      /\ named' = NameLength /\ ending' = FALSE /\ afterNewline' = nl /\ captionTokens' = Counted
      /\ UNCHANGED <<cfg, injection, codes, audio, over>>
      /\ Generates /\ field = "caption"
  BY <1>1 DEF NamesField, Enters
<1>3. /\ over = "no" /\ stage = "value" /\ injected = NoField /\ queue = <<>>
      /\ cfg.user[field] = NoValue /\ field \notin Constrained /\ field \in Fields
      /\ captionTokens \in 0..CaptionLimit /\ cfg.phase = "understand"
  BY <1>2, GeneratesLemma DEF IInv, TypeOK, Constrained
<1>4. f \in Fields /\ f # NoField /\ Rank[f] > Rank[field]
  BY <1>2 DEF Nameable, Fields, NoField, Rank
<1>5. /\ doc' \in Seq(Entries)
      /\ ValuesValid' /\ UserVerbatim' /\ InOrder'
      /\ \A g : HasField(g) \/ g = field => HasField(g)'
  BY <1>2, <1>3, <1>4, AppendLemma
<1>6. TypeOK'
  <2>1. captionTokens' \in 0..CaptionLimit /\ position' \in 0..(NameLength - 1)
        /\ named' \in 0..NameLength
    BY <1>2, <1>3 DEF Counted
  <2>2. value' \in Seq(Tokens) \cup {Text}
    BY <1>2
  <2>3. stage' \in Stages /\ field' \in Fields \cup {NoField}
        /\ (stage' \in {"name", "value"} <=> field' # NoField)
    BY <1>2, <1>4 DEF Stages
  <2>4. afterNewline' \in BOOLEAN /\ ending' \in BOOLEAN
    BY <1>2, Zenon
  <2> QED BY <1>2, <1>5, <2>1, <2>2, <2>3, <2>4 DEF IInv, TypeOK, injection
<1>7. UserInv' /\ InjectionInv' /\ TextInv' /\ NameInv' /\ PhaseInv' /\ CodesInv'
  BY <1>2, <1>3
     DEF IInv, UserInv, InjectionInv, TextInv, NameInv, PhaseInv, CodesInv, injection
<1>8. ProgressInv'
  <2>1. HasField("caption")' /\ HasField("bpm")'
    BY <1>2, <1>5 DEF IInv, ProgressInv, NoField, Rank
  <2> QED BY <1>2, <2>1 DEF ProgressInv
<1> QED BY <1>5, <1>6, <1>7, <1>8 DEF IInv

LEMMA StopsLemma == IInv /\ StopsAtReasoning => IInv'
<1> SUFFICES ASSUME IInv, StopsAtReasoning PROVE IInv'
  OBVIOUS
<1> USE ConstantsAssumption
<1>1. /\ over = "no" /\ stage = "end" /\ stage' = "completed" /\ field' = NoField
      /\ position' = 0 /\ value' = <<>> /\ over' = "eos"
      /\ UNCHANGED <<cfg, injection, caption, codes, written>>
  BY DEF StopsAtReasoning, Writing, Enters
<1>2. injected = NoField /\ queue = <<>> /\ cfg.phase = "understand"
  BY <1>1 DEF IInv, InjectionInv, PhaseInv, TypeOK, Phases
<1>3. TypeOK'
  <2>1. /\ position' \in 0..(NameLength - 1) /\ value' \in Seq(Tokens) \cup {Text}
        /\ stage' \in Stages /\ field' \in Fields \cup {NoField}
        /\ ~(stage' \in {"name", "value"})
    BY <1>1 DEF Stages
  <2> QED BY <1>1, <2>1 DEF IInv, TypeOK, injection, caption, written
<1>4. UserInv' /\ InjectionInv' /\ TextInv' /\ NameInv' /\ PhaseInv' /\ CodesInv'
  BY <1>1, <1>2 DEF IInv, UserInv, InjectionInv, TextInv, NameInv, PhaseInv, CodesInv, injection
<1>5. ValuesValid' /\ UserVerbatim' /\ InOrder' /\ ProgressInv'
  BY <1>1 DEF IInv, ValuesValid, UserVerbatim, InOrder, ProgressInv, written
<1> QED BY <1>3, <1>4, <1>5 DEF IInv

\* The codes: within the target, and ended only at it.
LEMMA CodesLemma == IInv /\ (WritesCode \/ EndsCodes) => IInv'
<1> SUFFICES ASSUME IInv, WritesCode \/ EndsCodes PROVE IInv'
  OBVIOUS
<1> USE DEF place, injection, caption, written, Writing
<1>1. /\ over = "no" /\ stage = "codes" /\ codes' = codes + 1
      /\ UNCHANGED <<cfg, place, injection, caption, named, doc>>
      /\ codes \in Nat /\ audio \in Nat
  BY DEF WritesCode, EndsCodes, IInv, TypeOK
<1>2. cfg.phase = "codes" /\ audio = codes /\ (cfg.target # 0 => codes <= cfg.target)
  BY <1>1 DEF IInv, PhaseInv, CodesInv
<1>3. cfg.target # 0 => cfg.target \in Nat
  BY LimitLemma DEF IInv
<1>4. /\ audio' \in Nat /\ over' \in {"no", "eos"}
      /\ over' = "no" => audio' = codes' /\ (cfg.target # 0 => codes' <= cfg.target)
      /\ over' = "eos" => (cfg.target # 0 => audio' = cfg.target)
  <2>1. CASE WritesCode
    BY <1>1, <1>2, <1>3, <2>1 DEF WritesCode, MoreCodes
  <2>2. CASE EndsCodes
    BY <1>1, <1>2, <1>3, <2>2 DEF EndsCodes, MayEnd
  <2> QED BY <2>1, <2>2
<1>5. TypeOK'
  BY <1>1, <1>4 DEF IInv, TypeOK
<1>6. CodesInv'
  BY <1>1, <1>2, <1>4 DEF CodesInv
<1>7. UserInv' /\ InjectionInv' /\ TextInv' /\ NameInv' /\ PhaseInv'
  BY <1>1 DEF IInv, UserInv, InjectionInv, TextInv, NameInv, PhaseInv
<1>8. ValuesValid' /\ UserVerbatim' /\ InOrder' /\ ProgressInv'
  <2>1. /\ ValuesValid' /\ UserVerbatim' /\ InOrder'
        /\ \A f : HasField(f)' <=> HasField(f)
    BY <1>1, KeepsLemma
  <2> QED BY <1>1, <2>1 DEF IInv, ProgressInv
<1> QED BY <1>5, <1>6, <1>7, <1>8 DEF IInv

\* The end of the text elsewhere, a failure, and the limit of tokens, which no
\* generation of codes for a duration meets.
LEMMA EndingsLemma == IInv /\ (Fails \/ Cut \/ EndOfText \/ EndsLyrics) => IInv'
<1> SUFFICES ASSUME IInv, Fails \/ Cut \/ EndOfText \/ EndsLyrics PROVE IInv'
  OBVIOUS
<1>1. /\ over = "no" /\ over' \in {"eos", "cut", "failed"}
      /\ UNCHANGED <<cfg, place, injection, caption, codes, written>>
  BY DEF Fails, Cut, EndOfText, EndsLyrics, Generates, Writing
<1>2. CASE stage # "codes" \/ over' = "failed"
  BY <1>1, <1>2, OverLemma
<1>3. CASE stage = "codes" /\ over' # "failed"
  <2> USE DEF place, injection, caption, written
  <2>1. Cut /\ cfg.phase = "codes" /\ over' = "cut"
    BY <1>3 DEF Fails, Cut, EndOfText, EndsLyrics, Generates, Writing, IInv, PhaseInv
  <2>2. cfg.target = 0
    <3>1. codes >= MaxTokens /\ codes \in Nat
      BY <2>1 DEF Cut, IInv, TypeOK
    <3>2. cfg.target # 0 => codes <= cfg.target
      BY <1>1, <2>1 DEF IInv, CodesInv
    <3> QED BY <3>1, <3>2, LimitLemma DEF IInv
  <2>3. TypeOK'
    BY <1>1 DEF IInv, TypeOK
  <2>4. UserInv' /\ InjectionInv' /\ TextInv' /\ NameInv' /\ PhaseInv' /\ CodesInv'
    BY <1>1, <2>1, <2>2
       DEF IInv, UserInv, InjectionInv, TextInv, NameInv, PhaseInv, CodesInv
  <2>5. ValuesValid' /\ UserVerbatim' /\ InOrder' /\ ProgressInv'
    <3>1. /\ ValuesValid' /\ UserVerbatim' /\ InOrder'
          /\ \A f : HasField(f)' <=> HasField(f)
      BY <1>1, KeepsLemma
    <3> QED BY <1>1, <3>1 DEF IInv, ProgressInv
  <2> QED BY <2>3, <2>4, <2>5 DEF IInv
<1> QED BY <1>2, <1>3

\* The two generations of a request are configured as ConfigureLemma asks.
LEMMA RequestsLemma == IInv /\ (FormatSample \/ PlanCodes) => IInv'
<1> SUFFICES ASSUME IInv, FormatSample \/ PlanCodes PROVE IInv'
  OBVIOUS
<1> USE ConstantsAssumption
<1>1. CASE FormatSample
  <2>1. PICK d \in Durations, stop \in BOOLEAN, marked \in BOOLEAN,
             asked \in SUBSET (Constrained \ {"duration"}) :
          \E given \in [asked -> UNION {UserValues[f] : f \in asked}] :
            /\ \A f \in asked : given[f] \in UserValues[f]
            /\ Configure(Config("understand", stop, marked,
                 [f \in Fields |-> IF f \in asked THEN given[f]
                                   ELSE IF f = "duration" THEN Spelled[d] ELSE NoValue],
                 PerSecond * d))
    BY <1>1 DEF FormatSample
  <2>2. PICK given \in [asked -> UNION {UserValues[f] : f \in asked}] :
            /\ \A f \in asked : given[f] \in UserValues[f]
            /\ Configure(Config("understand", stop, marked,
                 [f \in Fields |-> IF f \in asked THEN given[f]
                                   ELSE IF f = "duration" THEN Spelled[d] ELSE NoValue],
                 PerSecond * d))
    BY <2>1
  <2> DEFINE u == [f \in Fields |-> IF f \in asked THEN given[f]
                                    ELSE IF f = "duration" THEN Spelled[d] ELSE NoValue]
             c == [phase |-> "understand", stop |-> stop, marked |-> marked, user |-> u,
                   target |-> PerSecond * d, skip |-> {}]
  <2>3. \A f \in asked : given[f] \in Seq(Tokens) /\ given[f] # <<>>
    BY <2>2
  <2>4. Spelled[d] \in Seq(Tokens) /\ Spelled[d] # <<>>
    OBVIOUS
  <2>5. NoValue # <<>>
    <3>1. <<>> \in Seq(Tokens)
      OBVIOUS
    <3>2. NoValue \notin Seq(Tokens)
      OBVIOUS
    <3> QED BY <3>1, <3>2, Zenon
  <2>6. u \in [Fields -> Seq(Tokens) \cup {NoValue}]
    BY <2>3, <2>4
  <2>7. \A f \in Fields : u[f] # <<>>
    BY <2>3, <2>4, <2>5
  <2>8. u["caption"] = NoValue /\ u["genres"] = NoValue
    BY DEF Fields, Constrained
  <2>9. Configure(c)
    BY <2>2 DEF Config
  <2> HIDE DEF u
  <2>10. c \in [phase : Phases, stop : BOOLEAN, marked : BOOLEAN,
                user : [Fields -> Seq(Tokens) \cup {NoValue}],
                target : {0} \cup {PerSecond * e : e \in Durations}, skip : SUBSET Fields]
    BY <2>6 DEF Phases
  <2>11. /\ c.phase = "understand" /\ c.skip = {} /\ c.user = u
    OBVIOUS
  <2> HIDE DEF c
  <2> QED BY <2>7, <2>8, <2>9, <2>10, <2>11, ConfigureLemma
<1>2. CASE PlanCodes
  <2> DEFINE c == [phase |-> "codes", stop |-> FALSE, marked |-> TRUE, user |-> Nothing,
                   target |-> cfg.target, skip |-> {"caption", "genres", "language"}]
  <2>1. Configure(c)
    BY <1>2 DEF PlanCodes, Config
  <2>2. cfg.target \in {0} \cup {PerSecond * d : d \in Durations}
    BY DEF IInv, TypeOK
  <2>3. Nothing \in [Fields -> Seq(Tokens) \cup {NoValue}]
    BY DEF Nothing
  <2>4. c \in [phase : Phases, stop : BOOLEAN, marked : BOOLEAN,
               user : [Fields -> Seq(Tokens) \cup {NoValue}],
               target : {0} \cup {PerSecond * d : d \in Durations}, skip : SUBSET Fields]
    BY <2>2, <2>3 DEF Phases, Fields
  <2>5. NoValue # <<>>
    <3>1. <<>> \in Seq(Tokens)
      OBVIOUS
    <3>2. NoValue \notin Seq(Tokens)
      OBVIOUS
    <3> QED BY <3>1, <3>2, Zenon
  <2>6. /\ c.marked /\ c.phase = "codes"
        /\ \A f \in Fields : c.user[f] = NoValue
        /\ "caption" \in Fields /\ "genres" \in Fields
    BY DEF Nothing, Fields
  <2> HIDE DEF c
  <2> QED BY <2>1, <2>4, <2>5, <2>6, ConfigureLemma
<1> QED BY <1>1, <1>2

LEMMA StutterLemma == IInv /\ UNCHANGED vars => IInv'
<1> SUFFICES ASSUME IInv, UNCHANGED vars PROVE IInv'
  OBVIOUS
<1> USE DEF vars, place, injection, caption, written
<1>1. TypeOK'
  BY DEF IInv, TypeOK
<1>2. UserInv' /\ InjectionInv' /\ TextInv' /\ NameInv' /\ PhaseInv' /\ CodesInv'
  BY DEF IInv, UserInv, InjectionInv, TextInv, NameInv, PhaseInv, CodesInv
<1>3. /\ ValuesValid' /\ UserVerbatim' /\ InOrder'
      /\ \A f : HasField(f)' <=> HasField(f)
  BY KeepsLemma
<1>4. ProgressInv'
  BY <1>3 DEF IInv, ProgressInv
<1> QED BY <1>1, <1>2, <1>3, <1>4 DEF IInv

LEMMA StepLemma == IInv /\ [Next]_vars => IInv'
<1> SUFFICES ASSUME IInv, [Next]_vars PROVE IInv'
  OBVIOUS
<1>1. CASE FormatSample \/ PlanCodes
  BY <1>1, RequestsLemma
<1>2. CASE Fails \/ Cut \/ EndOfText \/ EndsLyrics
  BY <1>2, EndingsLemma
<1>3. CASE WritesFixed
  BY <1>3, WritesFixedLemma
<1>4. CASE StopsAtReasoning
  BY <1>4, StopsLemma
<1>5. CASE StartsInjection \/ Injects \/ Injected
  BY <1>5, InjectionLemma
<1>6. CASE WritesValue \/ EndsValue
  BY <1>6, ValueLemma
<1>7. CASE NamesNothing \/ WritesGenres \/ EndsGenres \/ EndsGenresEarly
           \/ \E nl \in BOOLEAN : WritesCaption(nl) \/ NamesFreely(nl)
  BY <1>7, TextLemma
<1>8. CASE \E nl \in BOOLEAN : NamesField(nl)
  BY <1>8, NamesFieldLemma
<1>9. CASE WritesCode \/ EndsCodes
  BY <1>9, CodesLemma
<1>10. CASE UNCHANGED vars
  BY <1>10, StutterLemma
<1> QED BY <1>1, <1>2, <1>3, <1>4, <1>5, <1>6, <1>7, <1>8, <1>9, <1>10 DEF Next

LEMMA Inductive == Spec => []IInv
<1>1. Init => IInv
  BY InitLemma
<1>2. IInv /\ [Next]_vars => IInv'
  BY StepLemma
<1> QED BY <1>1, <1>2, PTL DEF Spec

---------------------------------------------------------------------------
(* The theorems.                                                           *)

\* The variables have their types, for every set of tokens and all lengths.
THEOREM TypeCorrect == Spec => []TypeOK
<1>1. IInv => TypeOK
  BY DEF IInv
<1> QED BY <1>1, Inductive, PTL

\* The processor lets the model write only whole values of the prefix trees,
\* whatever the trees are.
THEOREM ValuesAreValid == Spec => []ValuesValid
<1>1. IInv => ValuesValid
  BY DEF IInv
<1> QED BY <1>1, Inductive, PTL

\* What the user provides is written as it is, whatever failed before.
THEOREM UserValuesAreVerbatim == Spec => []UserVerbatim
<1>1. IInv => UserVerbatim
  BY DEF IInv
<1> QED BY <1>1, Inductive, PTL

\* Every value is right, whoever gives it (the masks, the injection and reset).
THEOREM EveryValueIsRight == Spec => []ValuesRight
<1>1. IInv => ValuesRight
  BY DEF IInv, ValuesRight
<1> QED BY <1>1, Inductive, PTL

\* The fields are written in their order, each at most once.
THEOREM FieldsInOrder == Spec => []InOrder
<1>1. IInv => InOrder
  BY DEF IInv
<1> QED BY <1>1, Inductive, PTL

\* The reasoning ends only when what cannot be skipped is written.
THEOREM AlwaysAnswered == Spec => []Answered
<1>1. IInv => Answered
  BY DEF IInv, ProgressInv, HasField, Answered
<1> QED BY <1>1, Inductive, PTL

\* A duration gets exactly its codes, for every rate and every limit.
THEOREM CodesAreExact == Spec => []CodesExact
<1>1. IInv => CodesExact
  BY DEF IInv, CodesInv, CodesExact
<1> QED BY <1>1, Inductive, PTL
===========================================================================
