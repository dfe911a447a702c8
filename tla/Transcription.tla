--------------------------- MODULE Transcription ----------------------------
(***************************************************************************)
(* What a Whisper task does between its download and its transcript        *)
(* (app/whisper/): the audio file, its split into parts, the OpenAI calls  *)
(* whose answers are stitched together, the local fallback, and the files  *)
(* that stay in ytdlp_tmp_dir when a task is killed.  Tasks of one video   *)
(* run one after the other and use the same file names.                    *)
(***************************************************************************)
EXTENDS Outline, FiniteSets, FiniteSetsExt

CONSTANTS
    Backend,        \* whisper_backend: "openai" or "local"
    Fallback,       \* whisper_fallback_on_openai_error
    MaxBytes,       \* whisper_chunk_bytes
    Rate,           \* bytes of the download per second, on the average
    Densities,      \* bytes per second of the densest part of a stream copy
    Encoded,        \* bytes per second that the encoder of ffmpeg writes
    Durations,      \* how long the audio may be that yt-dlp downloads
    Answers,        \* [entries, turns]: what the models may say of a transcript
    MaxTasks,       \* bound on the tasks
    NoAudio         \* no file, no result

ASSUME BackendAssumption == Backend \in {"openai", "local"} /\ Fallback \in BOOLEAN
ASSUME SizeAssumption ==
    /\ MaxBytes \in Nat \ {0}
    /\ Rate \in Nat \ {0}
    /\ Densities \subseteq Nat /\ \A d \in Densities : d >= Rate
    /\ Encoded \in Nat
    /\ Durations \subseteq Nat \ {0}
    /\ MaxTasks \in Nat
    /\ NoAudio \notin Nat
ASSUME AnswersAssumption == Answers \subseteq [entries : Seq(Span), turns : Seq(Span)]

VARIABLES
    audio,      \* the duration of the file <id>.m4a, or NoAudio
    onDisk,     \* onDisk[i]: the part file <id>_part_<i>, for the i that exist
    stage,
    parts,      \* the files of this task in the order they are sent
    done,       \* how many of them have been transcribed
    offset,     \* duration_acc
    snippets,   \* what was transcribed so far
    density,    \* bytes per second of the densest of the parts, 0 before the split
    timed,      \* every answer so far told the duration of its part (history)
    covered,    \* none told less than the end of its last segment (history)
    result,     \* the transcript the last task has stored, or NoAudio
    derived,    \* chapters and speakers of that transcript, or NoAudio
    tasks,
    spoiled     \* what has happened to a task: "killed", "split" failed (history)

work == <<parts, done, offset, snippets, density, timed, covered>>
vars == <<audio, onDisk, stage, work, result, derived, tasks, spoiled>>

(* A file holds the seconds from start to end of the audio of a task. *)
Piece(from, to) == [start |-> from, end |-> to, task |-> tasks]
Stages == {"idle", "split", "openai", "local", "clean"}

TypeOK ==
    /\ audio \in Durations \union {NoAudio}
    /\ stage \in Stages
    /\ stage # "idle" => audio # NoAudio
    /\ done \in 0 .. Len(parts)
    /\ stage \in {"idle", "split"} => parts = <<>> /\ snippets = <<>> /\ offset = 0
    /\ stage = "openai" => done < Len(parts)
    /\ \A i \in DOMAIN onDisk : onDisk[i].start < onDisk[i].end
    /\ \A i \in DOMAIN snippets : snippets[i].start < snippets[i].end
    /\ density \in Densities \union {0, Rate, Encoded}
    /\ tasks \in 0 .. MaxTasks
    /\ spoiled \subseteq {"killed", "split"}

Init ==
    /\ audio = NoAudio
    /\ onDisk = <<>>
    /\ stage = "idle"
    /\ parts = <<>>
    /\ done = 0
    /\ offset = 0
    /\ snippets = <<>>
    /\ density = 0
    /\ timed = TRUE
    /\ covered = TRUE
    /\ result = NoAudio
    /\ derived = NoAudio
    /\ tasks = 0
    /\ spoiled = {}

-----------------------------------------------------------------------------
(* download_audio.  yt-dlp takes a file that is there for the download; a failed
   download ends the task with nothing to remove. *)
Download ==
    /\ stage = "idle"
    /\ tasks < MaxTasks
    /\ tasks' = tasks + 1
    /\ audio' \in IF audio = NoAudio THEN Durations ELSE {audio}
    /\ stage' = IF Backend = "openai" THEN "split" ELSE "local"
    /\ result' = NoAudio
    /\ derived' = NoAudio
    /\ UNCHANGED <<onDisk, work, spoiled>>

(* split_audio: segments of 95% of an even share, at least a second each, in
   whole seconds rounded up. *)
CeilDiv(a, b) == (a + b - 1) \div b
Shares(duration) == CeilDiv(duration * Rate, MaxBytes)

(* Mutant: the number of shares is rounded down. *)
SegmentTimeUnpadded(duration) == CeilDiv(duration, (duration * Rate) \div MaxBytes)

SegmentTime(duration) ==
    LET share == CeilDiv(95 * duration, 100 * Shares(duration))
    IN  IF share < 1 THEN 1 ELSE share

Segments(duration) ==
    LET len == SegmentTime(duration)
    IN  [i \in 1 .. CeilDiv(duration, len) |->
            Piece((i - 1) * len, IF i * len < duration THEN i * len ELSE duration)]

(* ffmpeg -y overwrites the numbers it reaches and leaves the others. *)
Written(n) ==
    [i \in (1 .. n) \union DOMAIN onDisk |->
        IF i <= n THEN Segments(audio)[i] ELSE onDisk[i]]

(* Mutant: as many parts are taken as shares were computed. *)
GlobShares(produced) == SubSeq(produced, 1, Shares(audio))
Glob(produced) == produced

(* A file that fits is sent whole.  Else ffmpeg copies the stream, where the bytes
   are not spread evenly, or, if it cannot, encodes it anew with a bitrate of its
   own.  The sizes of the parts are not looked at. *)
Split ==
    /\ stage = "split"
    /\ IF audio * Rate <= MaxBytes
       THEN parts' = <<Piece(0, audio)>> /\ density' = Rate /\ UNCHANGED onDisk
       ELSE /\ onDisk' = Written(Len(Segments(audio)))
            /\ parts' = Glob(onDisk')
            /\ density' \in Densities \union {Encoded}
    /\ stage' = "openai"
    /\ UNCHANGED <<audio, done, offset, snippets, timed, covered,
                   result, derived, tasks, spoiled>>

(* ffprobe fails, or both runs of ffmpeg do with some segments written: the
   finally clause that removes parts is not reached. *)
SplitFails ==
    /\ stage = "split"
    /\ audio * Rate > MaxBytes
    /\ \E n \in 0 .. Len(Segments(audio)) - 1 : onDisk' = Written(n)
    /\ stage' = "clean"
    /\ spoiled' = spoiled \union {"split"}
    /\ UNCHANGED <<audio, work, result, derived, tasks>>

-----------------------------------------------------------------------------
(* openai_backend.transcribe. *)
(* The end of the last segment that is heard in a file of n seconds, 0 when there
   is none: models leave out silence and run past the end of the file. *)
Heard(n) == {0, n - 1, n, n + 1}

(* The duration that comes with an answer: none, that of the file, or less. *)
Untold == -1
Told(n) == {Untold, n - 1, n}

Heading(piece, at, n) ==
    IF n = 0 THEN <<>>
    ELSE <<[start |-> at, end |-> at + n, spoken |-> piece.start, task |-> piece.task]>>

(* Mutant: the next part starts where the last segment ended. *)
AdvancedToEnd(heard, told) == heard
(* The duration an answer tells, else the end of its last segment. *)
Advanced(heard, told) == IF told # Untold THEN told ELSE heard

(* Mutant: the parts of a finished call stay. *)
RemovePartsNot == onDisk
(* cleanup of every part that is not the download itself. *)
RemoveParts == IF audio * Rate <= MaxBytes THEN onDisk ELSE <<>>

Transcript(backend, sent, heard, duration, exact, whole) ==
    [backend |-> backend, duration |-> duration, length |-> audio, task |-> tasks,
     sent |-> sent, snippets |-> heard, timed |-> exact, covered |-> whole]

TranscribePart ==
    LET piece == parts[done + 1]
        length == piece.end - piece.start
    IN
    /\ stage = "openai"
    /\ \E heard \in Heard(length), told \in Told(length) :
          /\ snippets' = snippets \o Heading(piece, offset, heard)
          /\ offset' = offset + Advanced(heard, told)
          /\ timed' = (timed /\ told = length)
          /\ covered' = (covered /\ Advanced(heard, told) >= heard)
    /\ done' = done + 1
    /\ IF done' < Len(parts)
       THEN UNCHANGED <<onDisk, stage, result, derived>>
       ELSE /\ result' = Transcript("openai", parts, snippets', offset', timed', covered')
            /\ onDisk' = RemoveParts
            /\ stage' = "clean"
            /\ UNCHANGED derived
    /\ UNCHANGED <<audio, parts, density, tasks, spoiled>>

(* Authentication and bad requests end the task, whatever the configuration. *)
PartRefused ==
    /\ stage = "openai"
    /\ onDisk' = RemoveParts
    /\ stage' = "clean"
    /\ UNCHANGED <<audio, work, result, derived, tasks, spoiled>>

(* Rate limits, timeouts and errors of the server: the local model starts anew
   with the whole file. *)
PartUnavailable ==
    /\ stage = "openai"
    /\ onDisk' = RemoveParts
    /\ stage' = IF Fallback THEN "local" ELSE "clean"
    /\ UNCHANGED <<audio, work, result, derived, tasks, spoiled>>

-----------------------------------------------------------------------------
(* local_backend.transcribe. *)
TranscribeLocally ==
    /\ stage = "local"
    /\ \E heard \in Heard(audio) :
          result' = Transcript("local", <<Piece(0, audio)>>,
                               Heading(Piece(0, audio), 0, heard), audio, TRUE, TRUE)
    /\ stage' = "clean"
    /\ UNCHANGED <<audio, onDisk, work, derived, tasks, spoiled>>

LocalFails ==
    /\ stage = "local"
    /\ stage' = "clean"
    /\ UNCHANGED <<audio, onDisk, work, result, derived, tasks, spoiled>>

Forgotten ==
    /\ parts' = <<>>
    /\ done' = 0
    /\ offset' = 0
    /\ snippets' = <<>>
    /\ density' = 0
    /\ timed' = TRUE
    /\ covered' = TRUE

(* The finally clause of the task. *)
Clean ==
    /\ stage = "clean"
    /\ audio' = NoAudio
    /\ stage' = "idle"
    /\ Forgotten
    /\ UNCHANGED <<onDisk, result, derived, tasks, spoiled>>

(* The work-horse is killed: its files stay, also those ffmpeg was writing. *)
Kill ==
    /\ stage # "idle"
    /\ IF stage = "split" /\ audio * Rate > MaxBytes
       THEN \E n \in 0 .. Len(Segments(audio)) : onDisk' = Written(n)
       ELSE UNCHANGED onDisk
    /\ stage' = "idle"
    /\ spoiled' = spoiled \union {"killed"}
    /\ Forgotten
    /\ UNCHANGED <<audio, result, derived, tasks>>

(* Later requests give the transcript its chapters and speakers. *)
Derive ==
    /\ stage = "idle"
    /\ result # NoAudio
    /\ derived = NoAudio
    /\ \E a \in Answers :
          derived' = [entries |-> a.entries, turns |-> a.turns,
                      chapters |-> ParsedChapters(a.entries, result.duration),
                      speaker |-> [i \in DOMAIN result.snippets |->
                                      BestTurn(result.snippets[i], a.turns)]]
    /\ UNCHANGED <<audio, onDisk, stage, work, result, tasks, spoiled>>

Step ==
    \/ Download \/ Split \/ SplitFails
    \/ TranscribePart \/ PartRefused \/ PartUnavailable
    \/ TranscribeLocally \/ LocalFails
    \/ Clean

Next == Step \/ Kill \/ Derive

Spec == Init /\ [][Next]_vars

(* The work-horse runs. *)
FairSpec == Spec /\ WF_vars(Step)

-----------------------------------------------------------------------------
(***************************************************************************)
(* Properties.                                                             *)
(***************************************************************************)
(* The parts of task t come first in p, begin at the start of the audio, follow
   one another and end with its last second. *)
Covers(p, t, duration) ==
    \E n \in DOMAIN p :
        /\ p[1].start = 0
        /\ p[n].end = duration
        /\ \A i \in 1 .. n - 1 : p[i].end = p[i + 1].start
        /\ \A i \in DOMAIN p : p[i].task = t <=> i <= n

(* Nothing is lost or sent twice at a cut: the parts a transcript was made from
   follow one another from the first to the last second (audio.py:180-216). *)
WholeAudio ==
    result # NoAudio => Covers(result.sent, result.task, result.length)

(* How much denser than the average a part may be: the padding by 5% makes up for
   that and for the rounding up to whole seconds. *)
WithinMargin(d) == d * (95 * MaxBytes + 100 * Rate) <= 100 * (Rate * MaxBytes)

SmallParts ==
    \A i \in DOMAIN parts :
        parts[i].task = tasks => (parts[i].end - parts[i].start) * density <= MaxBytes

(* "So each part lands under max_bytes even when bitrate is not perfectly uniform"
   (audio.py:195-200): parts within the margin fit, whether they were copied or
   encoded, and whatever their number. *)
PartsFit == stage = "openai" /\ WithinMargin(density) => SmallParts

(* Snippets do not run into one another unless an answer told less than the end of
   its last segment; when all tell the duration of their part, each snippet is
   where it was spoken (openai_backend.py:160-171). *)
Stitched ==
    result # NoAudio =>
        LET s == result.snippets IN
        /\ result.covered => \A i \in 1 .. Len(s) - 1 : s[i].end <= s[i + 1].start
        /\ result.timed =>
              \A i \in DOMAIN s : s[i].task = result.task => s[i].start = s[i].spoken

(* A transcript holds nothing of an earlier download of its video, unless a task
   was killed or failed in its split and left parts with higher numbers, which
   the glob of audio.py:213 picks up. *)
OwnAudio ==
    result # NoAudio /\ spoiled = {} =>
        \A i \in DOMAIN result.sent : result.sent[i].task = result.task

(* Between tasks no file is left, with the same exceptions
   (openai_backend.py:179-190, worker.py:182-183). *)
Reclaimed == stage = "idle" /\ spoiled = {} => audio = NoAudio /\ onDisk = <<>>

(* The chapters start one after the other, and one is dropped only if a kept one
   starts no earlier (chapters.py:124-129). *)
ChaptersOrdered ==
    derived # NoAudio =>
        LET c == derived.chapters IN
        /\ \A i \in 1 .. Len(c) - 1 : c[i].start < c[i + 1].start
        /\ \A j \in DOMAIN FirstOf(derived.entries, MaxChapters) :
              Sound(derived.entries[j]) =>
                  \E i \in DOMAIN c : c[i].start >= derived.entries[j].start

(* A snippet gets the first of the turns that overlap it most, and none only if
   no turn comes within the tolerance (diarization.py:79-110). *)
SpeakersOverlap ==
    derived # NoAudio =>
        \A i \in DOMAIN derived.speaker :
            LET s == result.snippets[i]
                t == derived.turns
                k == derived.speaker[i]
            IN  IF k = 0 THEN \A j \in DOMAIN t : Overlap(s, t[j]) = 0
                ELSE /\ Overlap(s, t[k]) > 0
                     /\ \A j \in DOMAIN t : Overlap(s, t[j]) <= Overlap(s, t[k])
                     /\ \A j \in 1 .. k - 1 : Overlap(s, t[j]) < Overlap(s, t[k])

(* Whatever the backends answer, a task comes to its end. *)
TasksEnd == []<>(stage = "idle")

-----------------------------------------------------------------------------
(***************************************************************************)
(* What the comments say and the code does not do.                         *)
(***************************************************************************)
(* "Split path into pieces no larger than max_bytes" (audio.py:181). *)
PiecesNoLarger == stage = "openai" => SmallParts

(* "a failed transcribe never leaves audio behind" (audio.py:97-98), unless its
   work-horse was killed. *)
NothingLeftBehind ==
    stage = "idle" /\ "killed" \notin spoiled => audio = NoAudio /\ onDisk = <<>>
=============================================================================
