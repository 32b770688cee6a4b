---------------------------- MODULE VideoDecode ----------------------------
(***************************************************************************)
(* The decoding of an LTX video: LTX23VideoDecoder.tiled_decode and        *)
(* decode_and_stream in src/backend/engine/families/ltx/vae_mlx.py.        *)
(*                                                                         *)
(* A video too large for the memory budget is decoded in overlapping tiles *)
(* of latent frames.  A generator blends each tile with the next and yields*)
(* the frames that are final; they are written one by one to the standard  *)
(* input of an ffmpeg process, whose standard error is a pipe that nobody  *)
(* reads.  It also gets the audio, and ends when the shorter of the two    *)
(* does (-shortest).                                                       *)
(*                                                                         *)
(* A frame is the set of what was added up for it: which frame of the video*)
(* (at) the tile showed and with which weight.  Tiles are only cut in time *)
(* (_compute_decode_tiling gives no spatial configuration), so that a group*)
(* of tiles is one tile.  Weights are in units of 1 / Unit^2.              *)
(***************************************************************************)
EXTENDS Integers, Sequences

CONSTANTS
    Rooms,       \* latent frames the memory budget has room for
    Rates,       \* frames per second
    Lengths,     \* latent frames of a video
    Sounds,      \* frames the audio lasts for
    PipeRoom,    \* frames that fit into ffmpeg's standard input
    MaxReports,  \* status lines ffmpeg writes at most
    StderrRoom,  \* status lines that fit into ffmpeg's standard error
    MayFail,     \* whether ffmpeg may die
    NoChunk      \* previous_chunk is None

Contributions == [tile : Nat, at : Int, weight : Int]
Frames == SUBSET Contributions
Chunks == [start : Int, frames : Seq(Frames)]

ASSUME ConstantsAssumption ==
    /\ Rooms \subseteq Nat /\ Rates \subseteq Nat /\ Lengths \subseteq Nat \ {0}
    /\ Sounds \subseteq Nat
    /\ PipeRoom \in Nat \ {0} /\ MaxReports \in Nat /\ StderrRoom \in Nat
    /\ MayFail \in BOOLEAN
    /\ NoChunk \notin Chunks

VARIABLES
    cfg,        \* the video: room, rate, latents, and for how many frames it is heard
    group,      \* the tile that is decoded next
    previous,   \* previous_chunk and the start of previous_temporal_slice
    chunk,      \* the frames of the yielded chunk that are still to be written
    stage,      \* what decode_and_stream does
    broken,     \* pipe_broken
    pipe,       \* frames in ffmpeg's standard input
    file,       \* frames ffmpeg has encoded
    ffmpeg,     \* the state of the process
    reports     \* status lines ffmpeg has written

vars == <<cfg, group, previous, chunk, stage, broken, pipe, file, ffmpeg, reports>>

-----------------------------------------------------------------------------
\* The tiles.

Scale == 8  \* _SCALE_TIME

Larger(a, b) == IF a >= b THEN a ELSE b
Smaller(a, b) == IF a <= b THEN a ELSE b

Configurations == [room : Rooms, rate : Rates, latents : Lengths, heard : Sounds]

\* The tile and overlap sizes, in latent frames.
TileFrames(c) == Larger(16, Larger(2, c.room) * 8)
OverlapFrames(c) == Smaller(Larger(8, (c.rate \div 8) * 8), (TileFrames(c) \div 32) * 8)
Size(c) == TileFrames(c) \div Scale
Overlap(c) == OverlapFrames(c) \div Scale

Tiled(c) == c.latents > c.room

\* The tiles t of 1..Amount(c): latent frames Begin .. End - 1.
Stride(c) == Size(c) - Overlap(c)

Amount(c) ==
    IF Tiled(c) /\ c.latents > Size(c)
    THEN (c.latents + Size(c) - 2 * Overlap(c) - 1) \div Stride(c)
    ELSE 1

Begin(c, t) == IF t = 1 THEN 0 ELSE (t - 1) * Stride(c) - 1

End(c, t) == IF t = Amount(c) THEN c.latents ELSE (t - 1) * Stride(c) + Size(c)

\* The frames a tile gives: Start .. Stop - 1.
Start(c, t) == Begin(c, t) * Scale
Stop(c, t) == 1 + (End(c, t) - 1) * Scale
Length(c, t) == Stop(c, t) - Start(c, t)

\* Three upsamplings in time, each of which drops its first frame.
Upsampled(n) == 2 * n - 1
DecodedLength(n) == Upsampled(Upsampled(Upsampled(n)))

LeftRamp(c, t) == IF t = 1 THEN 0 ELSE Smaller(1 + Overlap(c) * Scale, Length(c, t))
RightRamp(c, t) == IF t = Amount(c) THEN 0 ELSE Smaller(Overlap(c) * Scale, Length(c, t))

\* The mask of a tile at its i-th frame, from 0.
Unit(c) == 1 + Overlap(c) * Scale

FadeInLate(c, t, i) == IF i < LeftRamp(c, t) THEN i + 1 ELSE Unit(c)
FadeIn(c, t, i) == IF i < LeftRamp(c, t) THEN i ELSE Unit(c)
FadeOut(c, t, i) == IF Length(c, t) - i <= RightRamp(c, t) THEN Length(c, t) - i ELSE Unit(c)

Shown(c, t, i) == [tile |-> t, at |-> Start(c, t) + i, weight |-> FadeIn(c, t, i) * FadeOut(c, t, i)]

\* buffer: the decoded tile times its mask, and what lies behind its end.
Buffer(c, t) ==
    LET actual == Smaller(Length(c, t), DecodedLength(End(c, t) - Begin(c, t)))
    IN  [i \in 1..Length(c, t) |-> IF i <= actual THEN {Shown(c, t, i - 1)} ELSE {}]

-----------------------------------------------------------------------------
Init ==
    /\ cfg \in Configurations
    /\ group = 1 /\ previous = NoChunk /\ chunk = <<>>
    /\ stage = "decoding" /\ broken = FALSE
    /\ pipe = <<>> /\ file = <<>> /\ ffmpeg = "running" /\ reports = 0

-----------------------------------------------------------------------------
\* The generator.

\* What the previous chunk and the buffer of tile t become where they overlap.
Merge(p, t, buffer) ==
    LET offset  == Start(cfg, t) - p.start
        overlap == Len(p.frames) - offset
        merged  == [i \in 1..overlap |-> p.frames[offset + i] \cup buffer[i]]
    IN  IF overlap > 0
        THEN [previous |-> SubSeq(p.frames, 1, offset) \o merged,
              buffer   |-> merged \o SubSeq(buffer, overlap + 1, Len(buffer))]
        ELSE [previous |-> p.frames, buffer |-> buffer]

\* The frames of a chunk that are final when tile t has been merged: yield_len.
FinalByOneMore(p, t, frames) == SubSeq(frames, 1, Smaller(Len(frames), Start(cfg, t) - p.start + 1))
Final(p, t, frames) == SubSeq(frames, 1, Smaller(Len(frames), Start(cfg, t) - p.start))

\* No tiling: one decode, one chunk.
DecodeAtOnce ==
    /\ stage = "decoding" /\ ~Tiled(cfg) /\ group = 1
    /\ group' = 2
    /\ chunk' = Buffer(cfg, 1) /\ stage' = "writing"
    /\ UNCHANGED <<cfg, previous, broken, pipe, file, ffmpeg, reports>>

\* The first tile is kept for the second.
DecodeFirst ==
    /\ stage = "decoding" /\ Tiled(cfg) /\ group = 1
    /\ group' = 2
    /\ previous' = [start |-> Start(cfg, 1), frames |-> Buffer(cfg, 1)]
    /\ UNCHANGED <<cfg, chunk, stage, broken, pipe, file, ffmpeg, reports>>

\* A later tile is blended with the one before, whose frames are yielded up to its start.
DecodeNext ==
    /\ stage = "decoding" /\ Tiled(cfg) /\ group \in 2..Amount(cfg)
    /\ LET both == Merge(previous, group, Buffer(cfg, group))
           final == Final(previous, group, both.previous)
       IN  /\ previous' = [start |-> Start(cfg, group), frames |-> both.buffer]
           /\ chunk' = final
           /\ stage' = IF final # <<>> THEN "writing" ELSE "decoding"
    /\ group' = group + 1
    /\ UNCHANGED <<cfg, broken, pipe, file, ffmpeg, reports>>

\* The rest of the last tile.
YieldLast ==
    /\ stage = "decoding" /\ group = Amount(cfg) + 1 /\ previous # NoChunk
    /\ chunk' = previous.frames /\ stage' = "writing"
    /\ previous' = NoChunk
    /\ UNCHANGED <<cfg, group, broken, pipe, file, ffmpeg, reports>>

-----------------------------------------------------------------------------
\* decode_and_stream.

Alive == ffmpeg \in {"running", "reporting"}

\* A frame is written, which waits until it fits.

Write ==
    /\ stage = "writing" /\ ~broken /\ chunk # <<>>
    /\ Alive /\ Len(pipe) < PipeRoom
    /\ pipe' = Append(pipe, Head(chunk)) /\ chunk' = Tail(chunk)
    /\ UNCHANGED <<cfg, group, previous, stage, broken, file, ffmpeg, reports>>

\* BrokenPipeError: the rest of the chunk is not written.
WriteFails ==
    /\ stage = "writing" /\ ~broken /\ chunk # <<>>
    /\ ~Alive
    /\ broken' = TRUE /\ chunk' = <<>>
    /\ UNCHANGED <<cfg, group, previous, stage, pipe, file, ffmpeg, reports>>

\* The next chunk is asked for.
NextChunk ==
    /\ stage = "writing" /\ chunk = <<>>
    /\ stage' = "decoding"
    /\ UNCHANGED <<cfg, group, previous, chunk, broken, pipe, file, ffmpeg, reports>>

\* After a broken pipe the loop ends with the next chunk it gets, which is dropped.
GiveUp ==
    /\ stage = "writing" /\ broken /\ chunk # <<>>
    /\ chunk' = <<>> /\ stage' = "waiting"
    /\ UNCHANGED <<cfg, group, previous, broken, pipe, file, ffmpeg, reports>>

\* The generator has ended: stdin is closed, and ffmpeg is waited for.

Close ==
    /\ stage = "decoding" /\ group > Amount(cfg) /\ previous = NoChunk
    /\ stage' = "waiting"
    /\ UNCHANGED <<cfg, group, previous, chunk, broken, pipe, file, ffmpeg, reports>>

\* proc.wait() returns; the exit code is not looked at.
Return ==
    /\ stage = "waiting" /\ ffmpeg \in {"ended", "died"}
    /\ stage' = "returned"
    /\ UNCHANGED <<cfg, group, previous, chunk, broken, pipe, file, ffmpeg, reports>>

-----------------------------------------------------------------------------
\* ffmpeg.

NeverClosed == FALSE
Closed == stage \in {"waiting", "returned"}

\* A frame is read and encoded; a status line may be due then.
Encode ==
    /\ ffmpeg = "running" /\ pipe # <<>>
    /\ file' = Append(file, Head(pipe)) /\ pipe' = Tail(pipe)
    /\ ffmpeg' \in {"running"} \cup (IF reports < MaxReports THEN {"reporting"} ELSE {})
    /\ UNCHANGED <<cfg, group, previous, chunk, stage, broken, reports>>

\* The status line is written, which waits until it fits.
Report ==
    /\ ffmpeg = "reporting" /\ reports < StderrRoom
    /\ reports' = reports + 1 /\ ffmpeg' = "running"
    /\ UNCHANGED <<cfg, group, previous, chunk, stage, broken, pipe, file>>

\* The end of the frames, or of the audio: then the frames in the pipe are lost.
AudioOver == Len(file) >= cfg.heard

Finish ==
    /\ ffmpeg = "running"
    /\ AudioOver \/ (Closed /\ pipe = <<>>)
    /\ ffmpeg' = "ended" /\ pipe' = <<>>
    /\ UNCHANGED <<cfg, group, previous, chunk, stage, broken, file, reports>>

\* ffmpeg dies: a full disk, an unknown encoder, a kill.
Die ==
    /\ MayFail /\ Alive
    /\ ffmpeg' = "died" /\ pipe' = <<>>
    /\ UNCHANGED <<cfg, group, previous, chunk, stage, broken, file, reports>>

-----------------------------------------------------------------------------
Producer ==
    \/ DecodeAtOnce \/ DecodeFirst \/ DecodeNext \/ YieldLast
    \/ Write \/ WriteFails \/ NextChunk \/ GiveUp \/ Close \/ Return

Encoder == Encode \/ Report \/ Finish

Next == Producer \/ Encoder \/ Die

Spec == Init /\ [][Next]_vars

\* The task's thread and the ffmpeg process run.
FairSpec == Spec /\ WF_vars(Producer) /\ WF_vars(Encoder)

-----------------------------------------------------------------------------
\* Properties.

\* The type invariant.
TypeOK ==
    /\ cfg \in Configurations
    /\ group \in 1..(Amount(cfg) + 1)
    /\ previous \in {NoChunk} \cup Chunks
    /\ chunk \in Seq(Frames) /\ pipe \in Seq(Frames) /\ file \in Seq(Frames)
    /\ Len(pipe) <= PipeRoom
    /\ stage \in {"decoding", "writing", "waiting", "returned"}
    /\ broken \in BOOLEAN
    /\ ffmpeg \in {"running", "reporting", "ended", "died"}
    /\ reports \in 0..Smaller(StderrRoom, MaxReports)

\* The frame at p when all tiles are decoded first and added up.
Video(c, p) ==
    {Shown(c, t, p - Start(c, t)) : t \in {t \in 1..Amount(c) : p \in Start(c, t)..(Stop(c, t) - 1)}}

\* What is written is what adding up all the tiles at once gives, frame by
\* frame and in order: a frame is only yielded when no later tile reaches it,
\* and none is skipped, repeated or shifted (tiled_decode keeps one chunk).
Exact ==
    LET written == file \o pipe
    IN  \A i \in 1..Len(written) : written[i] = Video(cfg, i - 1)

\* At most two tiles meet in a frame; they show that very frame, their weights
\* add up to one, and the first frame of a later tile, which is decoded as the
\* first frame of a video, has no weight (_split_temporal_latents and the mask
\* with left_starts_from_0).
Seamless ==
    \A i \in 1..Len(file) :
        /\ \E s, r \in file[i] :
              /\ file[i] = {s, r}
              /\ (IF s = r THEN s.weight ELSE s.weight + r.weight) = Unit(cfg) * Unit(cfg)
        /\ \A s \in file[i] :
              /\ s.at = i - 1
              /\ s.tile > 1 /\ s.at = Start(cfg, s.tile) => s.weight = 0

\* A file that ffmpeg has ended holds all the frames that the warning of
\* decode_and_stream expects, or at least those for which the audio lasts.
Whole == ffmpeg = "ended" => Len(file) >= Smaller(cfg.heard, cfg.latents * 8 - 7)

\* What ffmpeg has is the video so far, and when it ends, the whole video, or
\* what of it can be heard, although it may end with frames on their way.
FileIsTheVideo == Exact /\ Whole

\* decode_and_stream waits for ffmpeg, to take a frame or to end ...
WaitsForFfmpeg ==
    /\ Alive
    /\ \/ stage = "writing" /\ ~broken /\ chunk # <<>> /\ Len(pipe) = PipeRoom
       \/ stage = "waiting"

\* ... and ffmpeg waits for decode_and_stream, to read its status or to give it a frame.
FfmpegWaits ==
    \/ ffmpeg = "reporting" /\ reports >= StderrRoom
    \/ ffmpeg = "running" /\ pipe = <<>> /\ ~Closed

\* The two do not wait for each other, unless ffmpeg writes more than its pipe holds.
NoMutualWait == MaxReports <= StderrRoom => ~(WaitsForFfmpeg /\ FfmpegWaits)

\* decode_and_stream returns, also when ffmpeg dies.
DecodeEnds == <>(stage = "returned")

=============================================================================
