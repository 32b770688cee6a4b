--------------------------- MODULE ConstrainedLm ---------------------------
(***************************************************************************)
(* Constrained decoding of the 5Hz language model of ACE-Step:             *)
(* src/backend/engine/families/ace_step/lm/constrained_lm.py,              *)
(* MetadataConstrainedLogitsProcessor, as format_sample of lm_format_mlx.py*)
(* uses it: a generation that writes the metadata of a song, and one that  *)
(* writes its audio codes, with one processor for all requests.            *)
(*                                                                         *)
(* A step is one token: the processor masks the scores (__call__), the     *)
(* model chooses among the tokens that are left, which is any of them, and *)
(* update_state follows.  A name or tag is a number of tokens, a value a   *)
(* sequence of tokens; of free text only what is looked at is kept.        *)
(* The vocabulary of genres is looked for in lm/data/, and lies elsewhere  *)
(* (../data/), so the field is free text.  The duration is always given    *)
(* (generation_mlx.py:353 bounds it), as metadata and as the target.       *)
(***************************************************************************)
EXTENDS Integers, Sequences

CONSTANTS
    Tokens,         \* the tokens of values
    NoValue,        \* of metadata the user does not provide
    Values,         \* per constrained field: the values of its prefix tree
    UserValues,     \* per field: what users provide
    Durations,      \* the durations requested, in seconds
    Spelled,        \* the tokens of a duration
    NameLength,     \* tokens of a name or tag
    CaptionLimit,   \* tokens after which a caption may only end its line
    PerSecond,      \* codes per second
    MinDuration, MaxDuration, Slack  \* of compute_max_new_tokens

\* The order of the fields.
Rank == [bpm |-> 1, caption |-> 2, duration |-> 3, genres |-> 4,
         keyscale |-> 5, language |-> 6, timesignature |-> 7]
Fields == {"bpm", "caption", "duration", "genres", "keyscale", "language", "timesignature"}
Constrained == {"bpm", "duration", "keyscale", "language", "timesignature"}
NoField == "none"

ASSUME ConstantsAssumption ==
    /\ NoValue \notin Seq(Tokens)
    /\ Values \in [Constrained -> SUBSET Seq(Tokens)]
    /\ UserValues \in [Constrained -> SUBSET Seq(Tokens)]
    /\ Durations \subseteq 0..MaxDuration /\ Spelled \in [Durations -> Seq(Tokens)]
    /\ \A f \in Constrained : <<>> \notin Values[f] \cup UserValues[f]
    /\ \A d \in Durations : Spelled[d] # <<>>
    /\ NameLength \in Nat /\ NameLength >= 2 /\ CaptionLimit \in Nat
    /\ PerSecond \in Nat \ {0} /\ Slack \in Nat \ {0}
    /\ MinDuration \in Nat /\ MaxDuration \in Nat /\ MinDuration <= MaxDuration

VARIABLES
    cfg,            \* the configuration of the generation
    stage, field,   \* state: a tag, or the name or value of a field
    position,       \* position_in_state
    value,          \* the tokens of the present value that have been written
    queue,          \* user_field_token_queue, without the newline at its end
    injected,       \* current_user_field
    afterNewline, captionTokens, ending,  \* the tracking of the caption
    codes,          \* codes_count
    named,          \* tokens of the name of the present field that were written
    doc,            \* the fields written
    audio,          \* the audio codes written
    over            \* how the generation ended

place == <<stage, field, position, value>>
caption == <<afterNewline, captionTokens, ending>>
injection == <<queue, injected>>
written == <<named, doc, audio>>
vars == <<cfg, place, injection, caption, codes, written, over>>

Config(phase, stop, marked, user, target) ==
    [phase |-> phase, stop |-> stop, marked |-> marked, user |-> user, target |-> target,
     skip |-> IF phase = "codes" THEN {"caption", "genres", "language"} ELSE {}]
Nothing == [f \in Fields |-> NoValue]
Idle == Config("understand", FALSE, FALSE, Nothing, 0)

---------------------------------------------------------------------------
(* Where the states lead.                                                  *)

\* Mutant: the search begins one field too late.
NextFieldButOne(f) ==
    LET later == {g \in Fields \ cfg.skip : Rank[g] > Rank[f] + 1}
    IN  IF later = {} THEN NoField
        ELSE CHOOSE g \in later : \A h \in later : Rank[g] <= Rank[h]

\* _get_next_field_state, with _build_state_transitions.
NextField(f) ==
    LET later == {g \in Fields \ cfg.skip : Rank[g] > Rank[f]}
    IN  IF later = {} THEN NoField
        ELSE CHOOSE g \in later : \A h \in later : Rank[g] <= Rank[h]
NameOf(f) == IF f = NoField THEN "end" ELSE "name"
Length(s) == IF s = "newline" THEN 1 ELSE NameLength
Complete(f, v) == v \in Values[f]
Extends(f, v, t) == \E w \in Values[f] :
                        Len(w) > Len(v) /\ SubSeq(w, 1, Len(v) + 1) = Append(v, t)

CaptionReset == afterNewline' = FALSE /\ captionTokens' = 0 /\ ending' = FALSE

\* To a name, a tag or a value: what every transition sets.
Enters(s, f) ==
    /\ stage' = s /\ field' = f
    /\ position' = 0 /\ value' = <<>>

\* The field is written, and the name of the next one follows.
Leaves(v) ==
    /\ Enters(NameOf(NextField(field)), NextField(field))
    /\ doc' = Append(doc, [field |-> field, value |-> v, name |-> named])
    /\ named' = 0

---------------------------------------------------------------------------
(* The two generations of format_sample.                                   *)

\* Mutant: what is left of an injection stays.
ResetPartly ==
    /\ position' = 0 /\ value' = <<>>
    /\ codes' = 0
    /\ UNCHANGED injection
    /\ CaptionReset

\* reset.
Reset ==
    /\ position' = 0 /\ value' = <<>>
    /\ codes' = 0
    /\ queue' = <<>> /\ injected' = NoField
    /\ CaptionReset

\* configure_constrained_processor, and what the first call finds in the prompt.
Configure(c) ==
    /\ Reset
    /\ cfg' = c
    /\ field' = NoField
    /\ stage' = IF ~c.marked THEN "think"
                ELSE IF c.phase = "codes" THEN "codes" ELSE "completed"
    /\ named' = 0 /\ doc' = <<>> /\ audio' = 0
    /\ over' = "no"

Init ==
    /\ cfg = Idle /\ stage = "completed" /\ field = NoField /\ position = 0 /\ value = <<>>
    /\ queue = <<>> /\ injected = NoField
    /\ afterNewline = FALSE /\ captionTokens = 0 /\ ending = FALSE
    /\ codes = 0 /\ named = 0 /\ doc = <<>> /\ audio = 0
    /\ over = "failed"

\* format_sample: the user gives a duration and any of the other values.
FormatSample ==
    /\ over = "failed" \/ (cfg.phase = "codes" /\ over # "no")
    /\ \E d \in Durations, stop \in BOOLEAN, marked \in BOOLEAN,
          asked \in SUBSET (Constrained \ {"duration"}) :
       \E given \in [asked -> UNION {UserValues[f] : f \in asked}] :
        /\ \A f \in asked : given[f] \in UserValues[f]
        /\ Configure(Config("understand", stop, marked,
                [f \in Fields |-> IF f \in asked THEN given[f]
                                  ELSE IF f = "duration" THEN Spelled[d] ELSE NoValue],
                PerSecond * d))

\* run_planner_codes_phase: its prompt contains the tag.
PlanCodes ==
    /\ cfg.phase = "understand" /\ over \in {"eos", "cut"}
    /\ Configure(Config("codes", FALSE, TRUE, Nothing, cfg.target))

\* An exception in the model ends the request.
Fails ==
    /\ over = "no"
    /\ over' = "failed"
    /\ UNCHANGED <<cfg, place, injection, caption, codes, written>>

\* compute_max_new_tokens, in the second generation.
Clamped(n) == IF n < PerSecond * MinDuration THEN PerSecond * MinDuration
              ELSE IF n > PerSecond * MaxDuration THEN PerSecond * MaxDuration ELSE n
MaxTokens == IF cfg.target = 0 THEN PerSecond * MaxDuration ELSE Clamped(cfg.target) + Slack

\* The limit of tokens is met; in the first generation that may be anywhere.
Cut ==
    /\ over = "no"
    /\ cfg.phase = "codes" => codes >= MaxTokens
    /\ over' = "cut"
    /\ UNCHANGED <<cfg, place, injection, caption, codes, written>>

Writing(s) == over = "no" /\ stage = s

---------------------------------------------------------------------------
(* Names and tags.                                                         *)

Reached(s, p) == p >= Length(s)

\* The next token of the string is forced.
WritesFixed ==
    /\ over = "no" /\ stage \in {"think", "newline", "name", "end"}
    /\ ~(stage = "end" /\ cfg.stop)
    /\ IF ~Reached(stage, position + 1)
       THEN position' = position + 1 /\ UNCHANGED <<stage, field, value, caption>>
       ELSE /\ CASE stage = "think" -> Enters("newline", NoField)
                 [] stage = "newline" -> Enters("name", "bpm")
                 [] stage = "name" -> Enters("value", field)
                 [] stage = "end" -> Enters(IF cfg.phase = "understand" THEN "completed"
                                            ELSE "codes", NoField)
            /\ CaptionReset
    /\ named' = IF stage = "name" THEN named + 1 ELSE 0
    /\ UNCHANGED <<cfg, injection, codes, doc, audio, over>>

\* stop_at_reasoning: the end of the text is forced in place of the tag.
StopsAtReasoning ==
    /\ Writing("end") /\ cfg.stop
    /\ Enters("completed", NoField)
    /\ over' = "eos"
    /\ UNCHANGED <<cfg, injection, caption, codes, written>>

---------------------------------------------------------------------------
(* Values.                                                                 *)

Generates == Writing("value") /\ injected = NoField
             /\ (cfg.user[field] = NoValue \/ value # <<>>)

\* The value the user provides is queued, and its first token forced.
StartsInjection ==
    /\ Writing("value") /\ injected = NoField /\ value = <<>>
    /\ cfg.user[field] # NoValue
    /\ injected' = field
    /\ value' = <<Head(cfg.user[field])>> /\ queue' = Tail(cfg.user[field])
    /\ UNCHANGED <<cfg, stage, field, position, caption, codes, written, over>>

Injects ==
    /\ Writing("value") /\ injected # NoField /\ queue # <<>>
    /\ value' = Append(value, Head(queue)) /\ queue' = Tail(queue)
    /\ UNCHANGED <<cfg, stage, field, position, injected, caption, codes, written, over>>

\* The newline empties the queue.
Injected ==
    /\ Writing("value") /\ injected # NoField /\ queue = <<>>
    /\ Leaves(value)
    /\ injected' = NoField
    /\ UNCHANGED <<cfg, queue, caption, codes, audio, over>>

\* A token of a prefix tree; what is complete may go on only if it is a number.
WritesValue ==
    /\ Generates /\ field \in Constrained
    /\ field \notin {"bpm", "duration"} => ~Complete(field, value)
    /\ \E t \in Tokens : Extends(field, value, t) /\ value' = Append(value, t)
    /\ UNCHANGED <<cfg, stage, field, position, injection, caption, codes, written, over>>

EndsValue ==
    /\ Generates /\ field \in Constrained
    /\ Complete(field, value)
    /\ Leaves(value)
    /\ CaptionReset
    /\ UNCHANGED <<cfg, injection, codes, audio, over>>

\* Free text: the caption and the genres have a token, which may be the last.
Text == <<"text">>
EndOfText ==
    /\ Generates /\ field \in {"caption", "genres"}
    /\ field = "caption" => captionTokens < CaptionLimit \/ afterNewline \/ ending
    /\ over' = "eos"
    /\ UNCHANGED <<cfg, place, injection, caption, codes, written>>

\* A token of the caption: nl says whether it has a newline.  After a line the
\* likeliest token decides whether the caption goes on; at its limit only a
\* newline is left.
Counted == IF captionTokens < CaptionLimit THEN captionTokens + 1 ELSE captionTokens
WritesCaption(nl) ==
    /\ Generates /\ field = "caption" /\ ~ending
    /\ captionTokens >= CaptionLimit => nl
    /\ value' = Text
    /\ afterNewline' = nl /\ captionTokens' = Counted
    /\ UNCHANGED <<cfg, stage, field, position, injection, ending, codes, written, over>>

\* The caption is ending: the model writes a name, freely.
NamesFreely(nl) ==
    /\ Generates /\ field = "caption" /\ (ending \/ afterNewline)
    /\ ending' = TRUE
    /\ value' = Text
    /\ afterNewline' = nl /\ captionTokens' = Counted
    /\ UNCHANGED <<cfg, stage, field, position, injection, codes, written, over>>

\* Mutant: the caption too.
NameableAgain == {"caption", "duration", "genres", "keyscale", "language", "timesignature"}
Nameable == {"duration", "genres", "keyscale", "language", "timesignature"}

\* A colon: the value of the field it names follows.  The caption's tracking is
\* reset only as far as the code does so.
NamesField(nl) ==
    /\ Generates /\ field = "caption" /\ (ending \/ afterNewline)
    /\ \E f \in Nameable : Enters("value", f)
    /\ doc' = Append(doc, [field |-> "caption", value |-> Text, name |-> named])
    /\ named' = NameLength
    /\ ending' = FALSE /\ afterNewline' = nl /\ captionTokens' = Counted
    /\ UNCHANGED <<cfg, injection, codes, audio, over>>

\* A colon after anything else.
NamesNothing ==
    /\ Generates /\ field = "caption" /\ (ending \/ afterNewline)
    /\ Leaves(Text)
    /\ CaptionReset
    /\ UNCHANGED <<cfg, injection, codes, audio, over>>

WritesGenres ==
    /\ Generates /\ field = "genres"
    /\ value' = Text
    /\ UNCHANGED <<cfg, stage, field, position, injection, caption, codes, written, over>>

\* A newline that was not the likeliest token.
EndsGenres ==
    /\ Generates /\ field = "genres" /\ value # <<>>
    /\ Leaves(Text)
    /\ CaptionReset
    /\ UNCHANGED <<cfg, injection, codes, audio, over>>

\* _should_end_text_field: the state changes before the newline is generated,
\* and update_state counts it as part of the next name.
EndsGenresEarly ==
    /\ Generates /\ field = "genres" /\ value # <<>>
    /\ stage' = NameOf(NextField(field)) /\ field' = NextField(field)
    /\ position' = 1 /\ value' = <<>>
    /\ doc' = Append(doc, [field |-> field, value |-> Text, name |-> named])
    /\ named' = 0
    /\ CaptionReset
    /\ UNCHANGED <<cfg, injection, codes, audio, over>>

---------------------------------------------------------------------------
(* After the metadata.                                                     *)

\* Mutant: one code too many.
MoreCodesByOne == cfg.target = 0 \/ codes <= cfg.target
MoreCodes == cfg.target = 0 \/ codes < cfg.target
MayEnd == cfg.target = 0 \/ codes >= cfg.target

WritesCode ==
    /\ Writing("codes") /\ MoreCodes /\ codes < MaxTokens
    /\ codes' = codes + 1 /\ audio' = audio + 1
    /\ UNCHANGED <<cfg, place, injection, caption, named, doc, over>>

\* The end of the text is counted too.
EndsCodes ==
    /\ Writing("codes") /\ MayEnd /\ codes < MaxTokens
    /\ codes' = codes + 1
    /\ over' = "eos"
    /\ UNCHANGED <<cfg, place, injection, caption, written>>

\* Lyrics are free.
EndsLyrics ==
    /\ Writing("completed")
    /\ over' = "eos"
    /\ UNCHANGED <<cfg, place, injection, caption, codes, written>>

---------------------------------------------------------------------------
Next ==
    \/ FormatSample \/ PlanCodes \/ Fails \/ Cut
    \/ WritesFixed \/ StopsAtReasoning
    \/ StartsInjection \/ Injects \/ Injected
    \/ WritesValue \/ EndsValue \/ EndOfText
    \/ \E nl \in BOOLEAN : WritesCaption(nl) \/ NamesFreely(nl) \/ NamesField(nl)
    \/ NamesNothing
    \/ WritesGenres \/ EndsGenres \/ EndsGenresEarly
    \/ WritesCode \/ EndsCodes \/ EndsLyrics

Spec == Init /\ [][Next]_vars

---------------------------------------------------------------------------
(* Properties.                                                             *)

Entries == [field : Fields, value : Seq(Tokens) \cup {Text}, name : 0..NameLength]
Phases == {"understand", "codes"}
Stages == {"think", "newline", "name", "value", "end", "codes", "completed"}

\* The variables have their types; a name is left when it is written, and a
\* field is at hand exactly in its name and its value.
TypeOK ==
    /\ cfg \in [phase : Phases, stop : BOOLEAN, marked : BOOLEAN,
                user : [Fields -> Seq(Tokens) \cup {NoValue}],
                target : {0} \cup {PerSecond * d : d \in Durations}, skip : SUBSET Fields]
    /\ stage \in Stages /\ field \in Fields \cup {NoField}
    /\ position \in 0..(NameLength - 1)
    /\ value \in Seq(Tokens) \cup {Text}
    /\ queue \in Seq(Tokens) /\ injected \in Fields \cup {NoField}
    /\ afterNewline \in BOOLEAN /\ ending \in BOOLEAN /\ captionTokens \in 0..CaptionLimit
    /\ codes \in Nat /\ audio \in Nat /\ named \in 0..NameLength
    /\ doc \in Seq(Entries)
    /\ over \in {"no", "eos", "cut", "failed"}
    /\ stage \in {"name", "value"} <=> field # NoField

\* A value the model writes is a whole value of the field's prefix tree.
ValuesValid ==
    \A i \in DOMAIN doc :
        LET f == doc[i].field IN
        f \in Constrained /\ cfg.user[f] = NoValue => doc[i].value \in Values[f]

\* What the user provides is written as it is, and as the value of its own field,
\* whatever an earlier request had left to inject.
UserVerbatim ==
    \A i \in DOMAIN doc :
        cfg.user[doc[i].field] # NoValue => doc[i].value = cfg.user[doc[i].field]

\* Whoever gives a value, the model or the user: it is written whole, as the value of
\* its own field.
ValuesRight == ValuesValid /\ UserVerbatim

\* No field is written twice or out of order, also when the model names a
\* field itself after the caption.
InOrder ==
    /\ \A i, j \in DOMAIN doc : i < j => Rank[doc[i].field] < Rank[doc[j].field]
    /\ field # NoField => \A i \in DOMAIN doc : Rank[doc[i].field] < Rank[field]

\* The reasoning is not closed before the tempo, the caption and the time
\* signature are written, which no choice of the model can skip.
Answered ==
    stage = "end" =>
        \A f \in {"bpm", "caption", "timesignature"} : \E i \in DOMAIN doc : doc[i].field = f

\* A generation of codes for a duration ends with exactly its number of codes,
\* neither stopped short by the limit of tokens nor counting those of another.
CodesExact ==
    cfg.phase = "codes" /\ cfg.target # 0 /\ over \in {"eos", "cut"} => audio = cfg.target

\* constrained_lm.py:2316: the newline that ends a value does not count as a
\* part of the name that follows.
NamesWhole ==
    \A i \in DOMAIN doc : doc[i].name = NameLength
===========================================================================
