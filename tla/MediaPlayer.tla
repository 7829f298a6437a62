---------------------------- MODULE MediaPlayer ----------------------------
(***************************************************************************)
(* media_bindings.c: a media context that streams.  One file holds audio   *)
(* and video packets in turn and is read by two parties: the host, which   *)
(* tops up the sound every tick, and the guest, which asks for the next    *)
(* picture.  Video packets the first meets are queued for the second.      *)
(*                                                                         *)
(* A video packet is its place in the file, which is also its time; audio  *)
(* packets are numbered by themselves and last one unit each.  FFmpeg and  *)
(* SDL are external: a decoder gives a picture once Delay packets more     *)
(* have come, and SDL plays what is queued, in order.                      *)
(***************************************************************************)
EXTENDS Integers, Sequences, FiniteSets, SequencesExt

CONSTANTS Movies,     \* the files: sequences of "a", "v" and "x", video that does not decode
          QueueCap,   \* MB_VPKT_QUEUE_CAP
          Target,     \* audio packets that make up the 200 ms to keep queued
          Delay,      \* packets a video decoder holds back
          MaxSteps    \* bound: calls of the guest

VARIABLES movie,      \* the file that is open
          player,     \* its MediaContext
          steps,      \* calls of the guest left
          \* history
          gone        \* since the last seek: video packets shown, failed, dropped or skipped

mediaVars == <<movie, player, steps, gone>>

ASSUME MediaAssumption == QueueCap \in Nat \ {0} /\ Target \in Nat \ {0} /\ Delay \in Nat

NoContext ==
    [kind |-> "none", pos |-> 1, vq |-> <<>>, held |-> <<>>, sdl |-> <<>>, sound |-> FALSE,
     frames |-> <<>>, pkt |-> FALSE, clock |-> 0, paused |-> FALSE, position |-> 0, rendered |-> 0, shown |-> 0,
     broken |-> FALSE]

Video(i) == movie[i] \in {"v", "x"}
\* the number of an audio packet
AudioTime(i) == Cardinality({j \in 1 .. i : movie[j] = "a"})

----------------------------------------------------------------------------
(* Opening: what the first bytes suggest is tried first.                   *)

Contents == {"image", "video", "audio", "raw", "junk"}
Hints == {"IMAGE", "CONTAINER", "AUDIO", "UNKNOWN"}

\* what each way of opening makes of a buffer: a container is also a series of
\* pictures, and a still is also a video
try_open_image(c) == IF c \in {"image", "video"} THEN "image" ELSE "none"
try_open_stream(c) ==
    CASE c \in {"image", "video"} -> "video" [] c = "audio" -> "audio" [] OTHER -> "none"
try_libraw(c) == IF c = "raw" THEN "image" ELSE "none"

First(h, c) == CASE h = "IMAGE" -> try_open_image(c)
                 [] h \in {"AUDIO", "CONTAINER"} -> try_open_stream(c)
                 [] OTHER -> "none"
Second(h, c) == IF h = "IMAGE" THEN try_open_stream(c) ELSE try_open_image(c)

media_open_buffer(h, c) ==
    IF First(h, c) # "none" THEN First(h, c)
    ELSE IF Second(h, c) # "none" THEN Second(h, c)
    ELSE try_libraw(c)

\* the files of a content
FilesOf(c) ==
    CASE c = "video" -> {m \in Movies : "v" \in Range(m)}
      [] c = "audio" -> {m \in Movies : "v" \notin Range(m)}
      [] OTHER -> {<<"v">>}

\* the pictures that came out of a decoder fed with a whole file, and the
\* packets it still holds; packets that fail are passed over
Fed(m) ==
    FoldLeft(LAMBDA s, i :
               IF m[i] # "v" THEN s
               ELSE IF Len(s.held) < Delay THEN [s EXCEPT !.held = Append(@, i)]
               ELSE [out |-> Append(s.out, Head(Append(s.held, i))), held |-> Tail(Append(s.held, i))],
             [out |-> <<>>, held |-> <<>>], [i \in 1 .. Len(m) |-> i])

\* decode_all_image_frames
Pictures(m) == Fed(m).out \o Fed(m).held

\* the packet that reads go to is allocated with the video decoder; sound needs
\* a decoder and an SDL stream and may be missing, but not from sound alone
Opened(kind, m, sound) ==
    CASE kind = "image" -> [NoContext EXCEPT !.kind = kind, !.frames = Pictures(m)]
      [] kind = "video" -> [NoContext EXCEPT !.kind = kind, !.sound = sound, !.pkt = TRUE]
      [] kind = "audio" -> [NoContext EXCEPT !.kind = kind, !.sound = TRUE]

Call == steps > 0 /\ ~player.broken /\ steps' = steps - 1

\* fn_media_open; what opens nothing gets no handle
Open ==
    /\ player.kind = "none"
    /\ Call
    /\ \E h \in Hints, c \in Contents :
         LET kind == media_open_buffer(h, c)
         IN  /\ kind # "none"
             /\ \E m \in FilesOf(c), sound \in BOOLEAN :
                  /\ sound => kind = "video" /\ "a" \in Range(m)
                  /\ movie' = m
                  /\ player' = Opened(kind, m, sound)
    /\ UNCHANGED gone

----------------------------------------------------------------------------
(* Reading.  Each loop is a fold over the packets it may reach, on a state *)
(* [p: the context, gone, done: how it ended].                             *)

Now == [p |-> player, gone |-> gone, done |-> "no"]
Then(s) == player' = s.p /\ gone' = s.gone

\* decode_audio_packet: to SDL, and the clock is when the last packet starts
Sounded(s, i) ==
    IF s.p.sound
    THEN [s EXCEPT !.p.sdl = Append(@, AudioTime(i)), !.p.clock = AudioTime(i) - 1]
    ELSE s

\* A mutant: the oldest packet makes room
StashOverwriting(s, i) ==
    [s EXCEPT !.p.vq = Append(IF Len(s.p.vq) = QueueCap THEN Tail(@) ELSE @, i)]
\* a video packet the pump has read: the queue keeps it, or it is let go and
\* the pump stops
Stash(s, i) ==
    IF Len(s.p.vq) >= QueueCap
    THEN [s EXCEPT !.done = "full", !.gone = @ \cup {i}]
    ELSE [s EXCEPT !.p.vq = Append(@, i)]

PumpStep(s, i) ==
    IF s.done # "no" THEN s
    ELSE IF Len(s.p.sdl) >= Target THEN [s EXCEPT !.done = "enough"]
    ELSE LET r == [s EXCEPT !.p.pos = i + 1]
         IN  IF movie[i] = "a" THEN Sounded(r, i) ELSE Stash(r, i)

\* pump_audio_buffer; without a packet to read into, a read is a NULL dereference
Pumped(s) ==
    IF ~s.p.sound \/ s.p.paused THEN s
    ELSE IF ~s.p.pkt /\ Len(s.p.sdl) < Target THEN [s EXCEPT !.p.broken = TRUE]
    ELSE FoldLeft(PumpStep, s, [k \in 1 .. Len(movie) - s.p.pos + 1 |-> s.p.pos + k - 1])

Tick ==
    /\ player.kind \in {"video", "audio"} /\ ~player.broken
    /\ Then(Pumped(Now))
    /\ UNCHANGED <<movie, steps>>

----------------------------------------------------------------------------
(* The next picture.                                                       *)

\* one packet to the decoder, which gives a picture, wants more, or fails
Decoded(s, i) ==
    IF movie[i] = "x" THEN [s EXCEPT !.done = "failed", !.gone = @ \cup {i}]
    ELSE IF Len(s.p.held) < Delay THEN [s EXCEPT !.p.held = Append(@, i)]
    ELSE [s EXCEPT !.done = "picture", !.p.held = Tail(Append(@, i)),
                   !.gone = @ \cup {Head(Append(s.p.held, i))},
                   !.p.position = Head(Append(s.p.held, i))]

Source(s) == IF s.p.vq # <<>> THEN "queue" ELSE IF s.p.pos <= Len(movie) THEN "file" ELSE "end"

DecodeStep(s, k) ==
    IF s.done # "no" THEN s
    ELSE CASE Source(s) = "queue" -> Decoded([s EXCEPT !.p.vq = Tail(@)], Head(s.p.vq))
           [] Source(s) = "end" -> [s EXCEPT !.done = "end"]
           [] Source(s) = "file" ->
                LET r == [s EXCEPT !.p.pos = @ + 1]
                IN  IF Video(s.p.pos) THEN Decoded(r, s.p.pos) ELSE Sounded(r, s.p.pos)

\* decode_next_video_frame: the picture shown before is given up first; the new
\* one may still fail to reach its texture; after a success the sound is topped up
DecodeNext ==
    /\ player.kind = "video"
    /\ Call
    /\ LET s == FoldLeft(DecodeStep, [Now EXCEPT !.p.shown = 0], [k \in 1 .. 2 * Len(movie) + 1 |-> k])
           r == [s EXCEPT !.p.rendered = s.p.position]
       IN  IF s.done = "picture"
           THEN \/ Then(Pumped([r EXCEPT !.p.shown = s.p.position, !.done = "no"]))
                \/ Then(r)
           ELSE Then(s)
    /\ UNCHANGED movie

----------------------------------------------------------------------------
(* Seeking, pausing, closing.                                              *)

\* av_seek_frame: a video packet at or before the time, or the start
SeekPoints(t) ==
    {1} \cup {i \in 1 .. Len(movie) : i <= t /\ (IF player.kind = "video" THEN Video(i) ELSE TRUE)}

\* decoders, sound and queue are emptied
Flushed(p, i) == [p EXCEPT !.pos = i, !.held = <<>>, !.sdl = <<>>, !.vq = <<>>]

\* pictures are decoded and let go until one at or after the time, that one too
SeekStep(s, t) ==
    IF s.done # "no" \/ s.p.pos > Len(movie) THEN s
    ELSE LET r == [s EXCEPT !.p.pos = @ + 1]
             d == Decoded(r, s.p.pos)
         IN  IF ~Video(s.p.pos) THEN r
             ELSE IF d.done = "picture" /\ d.p.position < t THEN [d EXCEPT !.done = "no"] ELSE d

\* no picture of the new place has been shown; the old one stays on the screen
Sought(p) == [p EXCEPT !.rendered = 0]

Seek(t) ==
    /\ player.kind \in {"video", "audio"}
    /\ Call
    /\ \E i \in SeekPoints(t) :
         LET s == [Now EXCEPT !.p = Flushed(player, i), !.gone = 1 .. i - 1]
             e == FoldLeft(LAMBDA x, k : SeekStep(x, t), s, [k \in 1 .. Len(movie) |-> k])
         IN  IF player.kind = "audio" THEN Then(s)
             ELSE Then([e EXCEPT !.p = Sought(e.p)])
    /\ UNCHANGED movie

\* pausing also drops the sound that is queued
SetPaused ==
    /\ player.kind # "none"
    /\ Call
    /\ player' = [player EXCEPT !.paused = ~@, !.sdl = IF player.paused THEN @ ELSE <<>>]
    /\ UNCHANGED <<movie, gone>>

CloseMedia ==
    /\ player.kind # "none"
    /\ Call
    /\ player' = NoContext /\ movie' = <<>> /\ gone' = {}

\* SDL plays what has been queued longest
Play == /\ player.sdl # <<>>
        /\ player' = [player EXCEPT !.sdl = Tail(@)]
        /\ UNCHANGED <<movie, steps, gone>>

----------------------------------------------------------------------------
MediaInit == movie = <<>> /\ player = NoContext /\ steps = MaxSteps /\ gone = {}
MediaNext == Open \/ Tick \/ DecodeNext \/ (\E t \in 1 .. Len(movie) : Seek(t)) \/ SetPaused \/ CloseMedia \/ Play

----------------------------------------------------------------------------
(* Properties.                                                             *)

\* media_audio_clock_ms
AudioClock == IF player.clock < Len(player.sdl) THEN 0 ELSE player.clock - Len(player.sdl)

\* The video packets that were read and not yet shown are, in the order of the
\* file, those in the decoder and then those in the queue, however the host's
\* ticks, the guest's calls and its seeks interleave; only what a full queue
\* turned away, what did not decode and what a seek passed over is missing.
VideoIsAccounted ==
    player.held \o player.vq =
        SelectSeq([i \in 1 .. player.pos - 1 |-> i], LAMBDA i : Video(i) /\ i \notin gone)

\* Between two seeks pictures are shown in the order of the file.
FramesInOrder ==
    [][player.rendered # 0 /\ player'.rendered # 0 /\ player'.kind = player.kind =>
         player'.rendered >= player.rendered]_mediaVars

\* The clock the guest steers the video by is when the packet before the one
\* being heard started, also after a pause or a seek: never ahead of the sound
\* and at most one packet behind.
ClockIsHeard ==
    player.sdl # <<>> =>
        LET start == Head(player.sdl) - 1 IN AudioClock = IF start = 0 THEN 0 ELSE start - 1

\* Opened as pictures, a file gives every picture in it that decodes.
AllPictures ==
    player.kind = "image" =>
        \A i \in 1 .. Len(movie) : movie[i] = "v" <=> \E k \in 1 .. Len(player.frames) : player.frames[k] = i

\* media_video_pts_ms, which the guest compares with that clock, is the time of
\* the last picture decoded and, if one is on the screen, of that one; after a
\* seek it is unset until the first picture of the new place, although the old
\* one still shows.
PtsIsShown ==
    player.rendered # 0 => player.position = player.rendered /\ player.shown \in {0, player.rendered}

\* Playback, read by the host for sound and by the guest for pictures: no packet is lost but
\* those named, pictures in order, clocks of what is heard and shown.
PlaybackSound ==
    /\ [](VideoIsAccounted /\ ClockIsHeard /\ PtsIsShown /\ AllPictures)
    /\ FramesInOrder
=============================================================================
