------------------------- MODULE TranscriptionProofs ------------------------
(***************************************************************************)
(* Proofs about Transcription for every length and density of the audio    *)
(* and of the parts, any answers of the models, and tasks that are killed  *)
(* anywhere: the parts cover the audio and fit within the margin, snippets *)
(* lie where they were spoken, no file is left, chapters are in order and  *)
(* speakers belong to snippets.                                            *)
(***************************************************************************)
EXTENDS Transcription, FiniteLemmas, SequenceTheorems

File == {f \in [start : Nat, end : Nat, task : Nat] : f.start < f.end}
Snippet == {s \in [start : Nat, end : Nat, spoken : Nat, task : Nat] : s.start < s.end}
Transcribed ==
    [backend : {"openai", "local"}, duration : Nat, length : Nat, task : Nat,
     sent : Seq(File), snippets : Seq(Snippet), timed : BOOLEAN, covered : BOOLEAN]

Typed ==
    /\ TypeOK
    /\ onDisk \in Seq(File)
    /\ parts \in Seq(File)
    /\ offset \in Nat
    /\ snippets \in Seq(Snippet)
    /\ timed \in BOOLEAN
    /\ covered \in BOOLEAN
    /\ result # NoAudio => result \in Transcribed

(* Without a killed task or a failed split there are part files only while the *)
(* parts of a split are sent.                                                *)
FilesGone ==
    spoiled = {} =>
        /\ stage = "idle" => audio = NoAudio
        /\ stage # "openai" \/ audio * Rate <= MaxBytes => onDisk = <<>>

(* What is on the disk comes from tasks up to now; before its split nothing is *)
(* of the running task.                                                      *)
FilesDated ==
    \A i \in DOMAIN onDisk :
        /\ onDisk[i].task <= tasks
        /\ stage = "split" => onDisk[i].task < tasks

AllOf(p, t) == \A i \in DOMAIN p : p[i].task = t

(* The parts that are sent. *)
PartsWhole ==
    stage = "openai" =>
        /\ Covers(parts, tasks, audio)
        /\ spoiled = {} => AllOf(parts, tasks)

Apart(s) == \A i \in 1 .. Len(s) - 1 : s[i].end <= s[i + 1].start
InPlace(s, t) == \A i \in DOMAIN s : s[i].task = t => s[i].start = s[i].spoken

(* The next snippet starts after the others as long as no answer told less than *)
(* its segments, and where the next part starts as long as every answer told *)
(* the duration of its part.                                                *)
Within(s, at) == Apart(s) /\ (s # <<>> => s[Len(s)].end <= at)

Stitching ==
    stage = "openai" =>
        /\ covered => Within(snippets, offset)
        /\ timed => /\ InPlace(snippets, tasks)
                    /\ parts[done + 1].task = tasks => offset = parts[done + 1].start

(* The stored transcript belongs to the last task. *)
ResultSound ==
    result # NoAudio =>
        /\ result.task = tasks
        /\ Covers(result.sent, result.task, result.length)
        /\ spoiled = {} => AllOf(result.sent, result.task)
        /\ result.covered => Apart(result.snippets)
        /\ result.timed => InPlace(result.snippets, result.task)

(* The outline was derived from the transcript that is stored. *)
OutlineSound ==
    derived # NoAudio =>
        /\ stage = "idle"
        /\ result # NoAudio
        /\ \E a \in Answers :
              derived = [entries |-> a.entries, turns |-> a.turns,
                         chapters |-> ParsedChapters(a.entries, result.duration),
                         speaker |-> [i \in DOMAIN result.snippets |->
                                         BestTurn(result.snippets[i], a.turns)]]

TaskInv ==
    /\ Typed
    /\ FilesGone
    /\ FilesDated
    /\ PartsWhole
    /\ PartsFit
    /\ Stitching
    /\ ResultSound
    /\ OutlineSound

-----------------------------------------------------------------------------
(***************************************************************************)
(* Arithmetic.                                                             *)
(***************************************************************************)
LEMMA Times ==
    ASSUME NEW a \in Nat, NEW b \in Nat, NEW c \in Nat, a <= b
    PROVE  a * c \in Nat /\ b * c \in Nat /\ a * c <= b * c /\ c * a <= c * b
<1>1. PICK d \in Nat : b = a + d
    <2>1. b - a \in Nat /\ b = a + (b - a)
        OBVIOUS
    <2>. QED
        BY <2>1
<1>2. b * c = a * c + d * c /\ d * c \in Nat /\ a * c \in Nat /\ c * a = a * c /\ c * b = b * c
    BY <1>1
<1>. QED
    BY <1>2

LEMMA CeilDivFacts ==
    ASSUME NEW a \in Nat, NEW b \in Nat \ {0}
    PROVE  /\ CeilDiv(a, b) \in Nat
           /\ a <= b * CeilDiv(a, b)
           /\ b * CeilDiv(a, b) <= a + b - 1
<1>1. a + b - 1 \in Nat
    OBVIOUS
<1>2. ASSUME NEW x \in Nat
      PROVE  /\ x \div b \in Nat /\ b * (x \div b) \in Nat
             /\ b * (x \div b) <= x /\ x < b * (x \div b) + b
    OBVIOUS
<1>. QED
    BY <1>1, <1>2 DEF CeilDiv

-----------------------------------------------------------------------------
(***************************************************************************)
(* The split.                                                              *)
(***************************************************************************)
(* A segment lasts a second at least, and fits a part at every density within *)
(* the margin: with n shares for d seconds its length is at most             *)
(* (95 d + 100 n) / 100 n, and d * Rate <= MaxBytes * n.                     *)
LEMMA SegmentTimeFacts ==
    ASSUME NEW d \in Nat \ {0}, NEW dens \in Nat
    PROVE  /\ SegmentTime(d) \in Nat \ {0}
           /\ WithinMargin(dens) => SegmentTime(d) * dens <= MaxBytes
<1>1. /\ Rate \in Nat \ {0} /\ MaxBytes \in Nat \ {0}
      /\ d * Rate \in Nat /\ d * Rate > 0 /\ 95 * d \in Nat
    BY SizeAssumption
<1>2. PICK n : n = Shares(d)
    OBVIOUS
<1>3. n \in Nat /\ d * Rate <= MaxBytes * n
    BY <1>1, <1>2, CeilDivFacts DEF Shares
<1>4. n > 0 /\ 100 * n \in Nat \ {0}
    BY <1>1, <1>3
<1>5. PICK share : share = CeilDiv(95 * d, 100 * n)
    OBVIOUS
<1>6. /\ share \in Nat /\ (100 * n) * share <= 95 * d + 100 * n - 1
      /\ 95 * d <= (100 * n) * share
    BY <1>1, <1>4, <1>5, CeilDivFacts
<1>7. SegmentTime(d) = share /\ share > 0
    <2>1. SegmentTime(d) = IF share < 1 THEN 1 ELSE share
        BY <1>2, <1>5 DEF SegmentTime
    <2>2. share # 0
        BY <1>4, <1>6
    <2>. QED
        BY <1>6, <2>1, <2>2
<1>8. ASSUME WithinMargin(dens) PROVE share * dens <= MaxBytes
    <2>1. PICK t \in Nat : t = 95 * MaxBytes + 100 * Rate
        BY <1>1
    <2>2. PICK m \in Nat : m = Rate * MaxBytes
        BY <1>1
    <2>3. dens * t <= 100 * m /\ dens * t \in Nat /\ n * t \in Nat /\ n * m \in Nat
        BY <1>1, <1>3, <1>8, <2>1, <2>2 DEF WithinMargin
    <2>4. PICK b \in Nat : b = n * share
        BY <1>3, <1>6
    <2>5. 100 * b <= 95 * d + 100 * n /\ 100 * b \in Nat /\ 95 * d + 100 * n \in Nat
        BY <1>3, <1>6, <2>4
    <2>6. (100 * b) * Rate <= n * t
        <3>1. (100 * b) * Rate <= (95 * d + 100 * n) * Rate
            BY <1>1, <2>5, Times
        <3>2. (95 * d + 100 * n) * Rate = 95 * (d * Rate) + 100 * (n * Rate)
            BY <1>1, <1>3
        <3>3. n * t = 95 * (MaxBytes * n) + 100 * (n * Rate)
            BY <1>1, <1>3, <2>1
        <3>4. MaxBytes * n \in Nat /\ n * Rate \in Nat
            BY <1>1, <1>3
        <3>. QED
            BY <1>1, <1>3, <3>1, <3>2, <3>3, <3>4
    <2>7. ((100 * b) * Rate) * dens <= (n * t) * dens
        BY <1>1, <2>3, <2>5, <2>6, Times
    <2>8. (n * t) * dens <= n * (100 * m)
        <3>1. n * (dens * t) <= n * (100 * m)
            BY <1>3, <2>3, Times
        <3>2. (n * t) * dens = n * (dens * t)
            BY <1>3
        <3>. QED
            BY <3>1, <3>2
    <2>9. PICK k \in Nat \ {0} : k = n * Rate
        BY <1>1, <1>3, <1>4
    <2>10. PICK x \in Nat : x = share * dens
        BY <1>6
    <2>11. ((100 * b) * Rate) * dens = 100 * (k * x)
        BY <1>1, <1>3, <1>6, <2>4, <2>9, <2>10
    <2>12. n * (100 * m) = 100 * (k * MaxBytes)
        BY <1>1, <1>3, <2>2, <2>9
    <2>13. k * x <= k * MaxBytes
        <3>1. k * x \in Nat /\ k * MaxBytes \in Nat /\ (n * t) * dens \in Nat
            BY <1>1, <2>3
        <3>2. 100 * (k * x) <= (n * t) * dens /\ (n * t) * dens <= 100 * (k * MaxBytes)
            BY <2>7, <2>8, <2>11, <2>12
        <3>. QED
            BY <3>1, <3>2
    <2>14. ASSUME x > MaxBytes PROVE FALSE
        <3>1. MaxBytes + 1 <= x /\ MaxBytes + 1 \in Nat
            BY <1>1, <2>14
        <3>2. k * (MaxBytes + 1) <= k * x
            BY <3>1, Times
        <3>3. k * (MaxBytes + 1) = k * MaxBytes + k /\ k * MaxBytes \in Nat /\ k * x \in Nat
            BY <1>1
        <3>. QED
            BY <2>13, <3>2, <3>3
    <2>. QED
        BY <1>1, <2>10, <2>14
<1>. QED
    BY <1>6, <1>7, <1>8

(* The segments cover the audio and are of the running task. *)
LEMMA SegmentFacts ==
    ASSUME NEW d \in Nat \ {0}, tasks \in Nat
    PROVE  /\ Segments(d) \in Seq(File)
           /\ Covers(Segments(d), tasks, d)
           /\ AllOf(Segments(d), tasks)
           /\ \A dens \in Nat : WithinMargin(dens) =>
                 \A i \in DOMAIN Segments(d) :
                     (Segments(d)[i].end - Segments(d)[i].start) * dens <= MaxBytes
<1>1. PICK len : len = SegmentTime(d)
    OBVIOUS
<1>2. /\ len \in Nat \ {0}
      /\ \A dens \in Nat : WithinMargin(dens) => len * dens <= MaxBytes
    BY <1>1, SegmentTimeFacts
<1>3. PICK n : n = CeilDiv(d, len)
    OBVIOUS
<1>4. n \in Nat /\ d <= len * n /\ len * n <= d + len - 1
    BY <1>2, <1>3, CeilDivFacts
<1>5. PICK s : s = Segments(d)
    OBVIOUS
<1>6. s = [i \in 1 .. n |->
              Piece((i - 1) * len, IF i * len < d THEN i * len ELSE d)]
    BY <1>1, <1>3, <1>5 DEF Segments
<1>7. n > 0
    BY <1>2, <1>4
<1>8. /\ n * len >= d
      /\ \A i \in 1 .. n : (i - 1) * len \in Nat /\ (i - 1) * len < d
      /\ \A i \in 1 .. n : i * len \in Nat /\ i * len = (i - 1) * len + len
    <2>1. (n - 1) * len < d /\ n * len = len * n
        BY <1>2, <1>4
    <2>2. ASSUME NEW i \in 1 .. n
          PROVE  /\ (i - 1) * len \in Nat /\ (i - 1) * len < d
                 /\ i * len \in Nat /\ i * len = (i - 1) * len + len
        <3>1. i - 1 \in Nat /\ n - 1 \in Nat /\ i - 1 <= n - 1
            BY <1>4
        <3>2. (i - 1) * len \in Nat /\ (n - 1) * len \in Nat /\ (i - 1) * len <= (n - 1) * len
            BY <1>2, <3>1, Times
        <3>3. i * len = (i - 1) * len + len
            BY <1>2, <1>4
        <3>. QED
            BY <1>2, <2>1, <3>2, <3>3
    <2>. QED
        BY <1>4, <2>1, <2>2
<1>9. \A i \in 1 .. n : i < n => i * len < d
    <2>1. ASSUME NEW i \in 1 .. n, i < n PROVE i * len < d
        <3>1. i + 1 \in 1 .. n /\ (i + 1) - 1 = i
            BY <1>4, <2>1
        <3>. QED
            BY <1>8, <3>1
    <2>. QED
        BY <2>1
<1>10. DOMAIN s = 1 .. n /\ \A i \in 1 .. n :
          /\ s[i].task = tasks
          /\ s[i].start = (i - 1) * len
          /\ s[i].end = IF i < n THEN i * len ELSE d
    <2>1. ASSUME NEW i \in 1 .. n
          PROVE  (IF i * len < d THEN i * len ELSE d) = IF i < n THEN i * len ELSE d
        BY <1>4, <1>8, <1>9
    <2>. QED
        BY <1>6, <2>1 DEF Piece
<1>11. s \in Seq(File)
    <2>1. ASSUME NEW i \in 1 .. n PROVE s[i] \in File
        <3>1. s[i] = [start |-> (i - 1) * len, end |-> IF i < n THEN i * len ELSE d, task |-> tasks]
            BY <1>6, <1>10 DEF Piece
        <3>2. /\ (i - 1) * len \in Nat
              /\ (IF i < n THEN i * len ELSE d) \in Nat
              /\ (i - 1) * len < IF i < n THEN i * len ELSE d
            BY <1>2, <1>8
        <3>. QED
            BY <3>1, <3>2 DEF File
    <2>2. s \in [1 .. n -> File]
        BY <1>6, <2>1
    <2>. QED
        BY <1>4, <2>2
<1>12. Covers(s, tasks, d)
    <2>1. n \in DOMAIN s /\ 1 \in 1 .. n /\ n \in 1 .. n
        BY <1>4, <1>7, <1>10
    <2>2. s[1].start = 0
        BY <1>2, <1>10, <2>1
    <2>3. s[n].end = d
        BY <1>4, <1>10, <2>1
    <2>4. ASSUME NEW i \in 1 .. n - 1 PROVE s[i].end = s[i + 1].start
        <3>1. i \in 1 .. n /\ i + 1 \in 1 .. n /\ i < n /\ (i + 1) - 1 = i
            BY <1>4
        <3>. QED
            BY <1>10, <3>1
    <2>. QED
        BY <1>10, <2>1, <2>2, <2>3, <2>4 DEF Covers
<1>13. ASSUME NEW dens \in Nat, WithinMargin(dens), NEW i \in 1 .. n
       PROVE  (s[i].end - s[i].start) * dens <= MaxBytes
    <2>1. PICK length : length = s[i].end - s[i].start
        OBVIOUS
    <2>2. length \in Nat /\ length <= len
        <3>1. CASE i < n
            BY <1>2, <1>8, <1>10, <2>1, <3>1
        <3>2. CASE i = n
            <4>1. s[i].end = d /\ s[i].start = (i - 1) * len
                BY <1>10, <3>2
            <4>2. (i - 1) * len \in Nat /\ (i - 1) * len < d /\ d <= (i - 1) * len + len
                BY <1>8, <3>2
            <4>. QED
                BY <1>2, <2>1, <4>1, <4>2
        <3>. QED
            BY <1>4, <3>1, <3>2
    <2>3. len \in Nat /\ MaxBytes \in Nat /\ len * dens <= MaxBytes
        BY <1>2, <1>13, SizeAssumption
    <2>4. length * dens <= len * dens /\ length * dens \in Nat /\ len * dens \in Nat
        BY <2>2, <2>3, Times
    <2>. QED
        BY <2>1, <2>3, <2>4
<1>. QED
    BY <1>5, <1>10, <1>11, <1>12, <1>13 DEF AllOf

LEMMA AudioFacts ==
    ASSUME TypeOK, stage # "idle"
    PROVE  audio \in Nat \ {0} /\ audio \in Durations /\ tasks \in Nat
<1>1. audio \in Durations /\ tasks \in 0 .. MaxTasks
    BY DEF TypeOK
<1>. QED
    BY <1>1, SizeAssumption

(* ffmpeg writes over what is there: the first n segments, then what was left. *)
LEMMA WrittenFacts ==
    ASSUME Typed, FilesDated, stage = "split", NEW n \in 0 .. Len(Segments(audio))
    PROVE  /\ Len(Segments(audio)) \in Nat
           /\ Written(n) \in Seq(File)
           /\ DOMAIN Written(n) = 1 .. (IF n < Len(onDisk) THEN Len(onDisk) ELSE n)
           /\ \A i \in DOMAIN Written(n) :
                 /\ i <= n => Written(n)[i] = Segments(audio)[i]
                 /\ Written(n)[i].task = tasks <=> i <= n
                 /\ Written(n)[i].task <= tasks
           /\ onDisk = <<>> /\ n = Len(Segments(audio)) => Written(n) = Segments(audio)
<1>1. audio \in Nat \ {0} /\ tasks \in Nat
    BY AudioFacts DEF Typed
<1>2. PICK s : s = Segments(audio)
    OBVIOUS
<1>3. s \in Seq(File) /\ AllOf(s, tasks)
    BY <1>1, <1>2, SegmentFacts
<1>4. /\ Len(s) \in Nat /\ n \in Nat /\ n <= Len(s) /\ DOMAIN s = 1 .. Len(s)
      /\ \A i \in 1 .. Len(s) : s[i] \in File /\ s[i].task = tasks
    BY <1>2, <1>3 DEF AllOf
<1>5. /\ onDisk \in Seq(File) /\ Len(onDisk) \in Nat /\ DOMAIN onDisk = 1 .. Len(onDisk)
      /\ \A i \in 1 .. Len(onDisk) :
            onDisk[i] \in File /\ onDisk[i].task \in Nat /\ onDisk[i].task < tasks
    BY SMTT(30) DEF Typed, FilesDated, File
<1>7. PICK m : m = IF n < Len(onDisk) THEN Len(onDisk) ELSE n
    OBVIOUS
<1>8. m \in Nat /\ (1 .. n) \union (1 .. Len(onDisk)) = 1 .. m
    BY <1>4, <1>5, <1>7
<1>9. Written(n) = [i \in 1 .. m |-> IF i \in 1 .. n THEN s[i] ELSE onDisk[i]]
    <2>1. (1 .. n) \union DOMAIN onDisk = 1 .. m
        BY <1>5, <1>8
    <2>2. \A i \in 1 .. m : i <= n <=> i \in 1 .. n
        BY <1>4, <1>8
    <2>. QED
        BY <1>2, <2>1, <2>2 DEF Written
<1>10. \A i \in 1 .. m : (IF i \in 1 .. n THEN s[i] ELSE onDisk[i]) \in File
    BY <1>4, <1>5, <1>8
<1>11. Written(n) \in [1 .. m -> File]
    BY <1>9, <1>10
<1>12. \A i \in 1 .. m :
          /\ i <= n => Written(n)[i] = s[i]
          /\ i > n => Written(n)[i] = onDisk[i] /\ i \in 1 .. Len(onDisk)
    BY <1>4, <1>8, <1>9
<1>13. \A i \in 1 .. m : Written(n)[i].task = tasks <=> i <= n
    BY <1>1, <1>4, <1>5, <1>8, <1>12
<1>14. \A i \in 1 .. m : Written(n)[i].task <= tasks
    BY <1>1, <1>4, <1>5, <1>8, <1>12
<1>15. ASSUME onDisk = <<>>, n = Len(s) PROVE Written(n) = s
    <2>1. m = n /\ DOMAIN Written(n) = 1 .. n /\ DOMAIN s = 1 .. n
        BY <1>3, <1>4, <1>7, <1>9, <1>15
    <2>2. \A i \in 1 .. n : Written(n)[i] = s[i]
        BY <1>4, <1>12, <2>1
    <2>. QED
        BY <1>3, <1>9, <2>1, <2>2
<1>16. Written(n) \in Seq(File) /\ DOMAIN Written(n) = 1 .. m
    BY <1>8, <1>11
<1>. QED
    BY <1>2, <1>4, <1>7, <1>12, <1>13, <1>14, <1>15, <1>16

-----------------------------------------------------------------------------
(***************************************************************************)
(* The invariant, action by action.                                        *)
(***************************************************************************)
LEMMA InitTaskInv == Init => TaskInv
<1> SUFFICES ASSUME Init PROVE TaskInv
    OBVIOUS
<1>1. <<>> \in Seq(File) /\ <<>> \in Seq(Snippet) /\ Len(<<>>) = 0 /\ DOMAIN <<>> = {}
    OBVIOUS
<1>2. TypeOK
    BY <1>1, SizeAssumption DEF Init, TypeOK, Stages
<1>3. Typed
    BY <1>1, <1>2 DEF Init, Typed
<1>. QED
    BY <1>3 DEF Init, TaskInv, FilesGone, FilesDated, PartsWhole, PartsFit, Stitching,
                ResultSound, OutlineSound

LEMMA DownloadTaskInv ==
    ASSUME TaskInv, Download
    PROVE  TaskInv'
<1> USE DEF TaskInv
<1>1. /\ stage = "idle" /\ stage' \in {"split", "local"} /\ tasks' = tasks + 1
      /\ tasks \in Nat /\ tasks' \in 0 .. MaxTasks /\ audio' \in Durations
      /\ result' = NoAudio /\ derived' = NoAudio
      /\ UNCHANGED <<onDisk, parts, done, offset, snippets, density, timed, covered, spoiled>>
    BY SizeAssumption DEF Download, work, Typed, TypeOK
<1>2. Typed'
    BY <1>1, SizeAssumption DEF Typed, TypeOK, Stages
<1>3. FilesGone'
    BY <1>1 DEF FilesGone
<1>4. FilesDated'
    <2>1. \A i \in DOMAIN onDisk : onDisk[i].task \in Nat /\ onDisk[i].task <= tasks
        BY DEF Typed, File, FilesDated
    <2>. QED
        BY <1>1, <2>1 DEF FilesDated
<1>5. PartsWhole' /\ PartsFit' /\ Stitching' /\ ResultSound' /\ OutlineSound'
    BY <1>1 DEF PartsWhole, PartsFit, Stitching, ResultSound, OutlineSound
<1>. QED
    BY <1>2, <1>3, <1>4, <1>5

(* What holds of the parts once they are chosen. *)
LEMMA SplitTaskInv ==
    ASSUME TaskInv, Split
    PROVE  TaskInv'
<1> USE DEF TaskInv
<1>1. /\ stage = "split" /\ stage' = "openai"
      /\ UNCHANGED <<audio, done, offset, snippets, timed, covered, result, derived, tasks,
                     spoiled>>
    BY DEF Split
<1>2. audio \in Nat \ {0} /\ audio \in Durations /\ tasks \in Nat
    BY <1>1, AudioFacts DEF Typed
<1>3. parts = <<>> /\ snippets = <<>> /\ offset = 0 /\ done = 0
    BY <1>1 DEF Typed, TypeOK
<1>4. spoiled = {} => onDisk = <<>>
    BY <1>1 DEF FilesGone
<1>5. /\ onDisk' \in Seq(File) /\ parts' \in Seq(File) /\ Len(parts') > 0
      /\ Covers(parts', tasks, audio)
      /\ spoiled = {} => AllOf(parts', tasks)
      /\ WithinMargin(density') => \A i \in DOMAIN parts' :
            parts'[i].task = tasks => (parts'[i].end - parts'[i].start) * density' <= MaxBytes
      /\ density' \in Densities \union {0, Rate, Encoded}
      /\ spoiled = {} /\ audio * Rate <= MaxBytes => onDisk' = <<>>
      /\ \A i \in DOMAIN onDisk' : onDisk'[i].task <= tasks
    <2>1. CASE audio * Rate <= MaxBytes
        <3>1. PICK p : p = Piece(0, audio)
            OBVIOUS
        <3>2. parts' = <<p>> /\ onDisk' = onDisk /\ density' = Rate
            BY <1>1, <2>1, <3>1 DEF Split
        <3>3. p \in File /\ p.start = 0 /\ p.end = audio /\ p.task = tasks
            BY <1>2, <3>1 DEF Piece, File
        <3>4. parts' \in Seq(File) /\ Len(parts') = 1 /\ DOMAIN parts' = {1} /\ parts'[1] = p
            BY <3>2, <3>3
        <3>5. Covers(parts', tasks, audio)
            BY <3>3, <3>4 DEF Covers
        <3>6. (p.end - p.start) * Rate = audio * Rate
            BY <1>2, <3>3
        <3>7. \A i \in DOMAIN onDisk : onDisk[i].task <= tasks
            BY DEF FilesDated
        <3>8. onDisk' \in Seq(File)
            BY <3>2 DEF Typed
        <3>9. AllOf(parts', tasks)
            BY <3>3, <3>4 DEF AllOf
        <3>. QED
            BY <1>4, <2>1, <3>2, <3>3, <3>4, <3>5, <3>6, <3>7, <3>8, <3>9
    <2>2. CASE ~(audio * Rate <= MaxBytes)
        <3>1. PICK s : s = Segments(audio)
            OBVIOUS
        <3>2. PICK n : n = Len(s)
            OBVIOUS
        <3>0. density' \in Densities \union {Encoded} /\ density' \in Nat
            BY <2>2, SizeAssumption DEF Split
        <3>3. /\ s \in Seq(File) /\ Covers(s, tasks, audio) /\ AllOf(s, tasks)
              /\ WithinMargin(density') => \A i \in DOMAIN s :
                     (s[i].end - s[i].start) * density' <= MaxBytes
            BY <1>2, <3>0, <3>1, SegmentFacts
        <3>4. onDisk' = Written(n) /\ parts' = Written(n)
            BY <1>1, <2>2, <3>1, <3>2 DEF Split, Glob
        <3>5. PICK w : w = Written(n)
            OBVIOUS
        <3>6. n \in 0 .. Len(s) /\ n \in Nat
            BY <3>2, <3>3
        <3>7. /\ w \in Seq(File)
              /\ DOMAIN w = 1 .. (IF n < Len(onDisk) THEN Len(onDisk) ELSE n)
              /\ \A i \in DOMAIN w : /\ i <= n => w[i] = s[i]
                                     /\ w[i].task = tasks <=> i <= n
                                     /\ w[i].task <= tasks
              /\ onDisk = <<>> => w = s
            BY <1>1, <3>1, <3>2, <3>5, <3>6, WrittenFacts
        <3>8. PICK m \in DOMAIN s :
                  /\ s[1].start = 0
                  /\ s[m].end = audio
                  /\ \A i \in 1 .. m - 1 : s[i].end = s[i + 1].start
                  /\ \A i \in DOMAIN s : s[i].task = tasks <=> i <= m
            BY <3>3 DEF Covers
        <3>9. m = n /\ n > 0 /\ DOMAIN s = 1 .. n
            BY <3>2, <3>3, <3>6, <3>8 DEF AllOf
        <3>10. DOMAIN w = 1 .. Len(w) /\ Len(w) \in Nat /\ n <= Len(w)
            <4>1. Len(onDisk) \in Nat
                BY DEF Typed
            <4>. QED
                BY <3>6, <3>7, <4>1
        <3>11. Covers(w, tasks, audio)
            <4>1. \A i \in 1 .. n : i \in DOMAIN w /\ w[i] = s[i]
                BY <3>6, <3>7, <3>10
            <4>2. n \in DOMAIN w /\ w[1].start = 0 /\ w[n].end = audio
                BY <3>8, <3>9, <4>1, <3>6
            <4>3. \A i \in 1 .. n - 1 : w[i].end = w[i + 1].start
                BY <3>6, <3>8, <3>9, <4>1
            <4>. QED
                BY <3>7, <4>2, <4>3 DEF Covers
        <3>12. WithinMargin(density') => \A i \in DOMAIN w :
                   w[i].task = tasks => (w[i].end - w[i].start) * density' <= MaxBytes
            BY <3>3, <3>7, <3>9, <3>10
        <3>13. spoiled = {} => AllOf(w, tasks)
            BY <1>4, <3>3, <3>7
        <3>. QED
            BY <2>2, <3>0, <3>4, <3>5, <3>7, <3>9, <3>10, <3>11, <3>12, <3>13
    <2>. QED
        BY <2>1, <2>2
<1>6. Typed'
    <2>1. \A i \in DOMAIN onDisk' : onDisk'[i].start < onDisk'[i].end
        BY <1>5 DEF File
    <2>2. Len(parts') \in Nat /\ done' \in 0 .. Len(parts') /\ done' < Len(parts')
        BY <1>1, <1>3, <1>5
    <2>. QED
        BY <1>1, <1>2, <1>3, <1>5, <2>1, <2>2 DEF Typed, TypeOK, Stages
<1>7. FilesGone' /\ FilesDated' /\ PartsWhole'
    BY <1>1, <1>5 DEF FilesGone, FilesDated, PartsWhole
<1>7a. PartsFit'
    <2>1. WithinMargin(density)' => WithinMargin(density')
        BY DEF WithinMargin
    <2>. QED
        BY <1>1, <1>5, <2>1 DEF PartsFit, SmallParts
<1>8. Stitching'
    <2>1. parts'[1].task = tasks => parts'[1].start = 0
        BY <1>5 DEF Covers
    <2>. QED
        BY <1>1, <1>3, <2>1 DEF Stitching, Within, Apart, InPlace
<1>9. ResultSound' /\ OutlineSound'
    BY <1>1 DEF ResultSound, OutlineSound
<1>. QED
    BY <1>6, <1>7, <1>7a, <1>8, <1>9

LEMMA SplitFailsTaskInv ==
    ASSUME TaskInv, SplitFails
    PROVE  TaskInv'
<1> USE DEF TaskInv
<1>1. /\ stage = "split" /\ stage' = "clean"
      /\ spoiled' = spoiled \union {"split"} /\ spoiled' # {}
      /\ UNCHANGED <<audio, parts, done, offset, snippets, density, timed, covered, result,
                     derived, tasks>>
    BY DEF SplitFails, work
<1>2. PICK n \in 0 .. Len(Segments(audio)) - 1 : onDisk' = Written(n)
    BY DEF SplitFails
<1>3. audio \in Nat \ {0} /\ audio \in Durations /\ tasks \in Nat
    BY <1>1, AudioFacts DEF Typed
<1>4. n \in 0 .. Len(Segments(audio))
    <2>1. Len(Segments(audio)) \in Nat
        BY <1>3, SegmentFacts
    <2>. QED
        BY <1>2, <2>1
<1>5. onDisk' \in Seq(File) /\ \A i \in DOMAIN onDisk' : onDisk'[i].task <= tasks
    BY <1>1, <1>2, <1>4, WrittenFacts
<1>6. Typed'
    <2>1. \A i \in DOMAIN onDisk' : onDisk'[i].start < onDisk'[i].end
        BY <1>5 DEF File
    <2>. QED
        BY <1>1, <1>5, <2>1 DEF Typed, TypeOK, Stages
<1>7. FilesGone' /\ FilesDated' /\ PartsWhole' /\ PartsFit' /\ Stitching'
    BY <1>1, <1>5 DEF FilesGone, FilesDated, PartsWhole, PartsFit, Stitching
<1>8. ResultSound' /\ OutlineSound'
    BY <1>1 DEF ResultSound, OutlineSound
<1>. QED
    BY <1>6, <1>7, <1>8

(* One more snippet after those that are there. *)
LEMMA HeadingFacts ==
    ASSUME NEW piece \in File, NEW at \in Nat, NEW n \in Nat,
           NEW s \in Seq(Snippet)
    PROVE  LET more == s \o Heading(piece, at, n) IN
           /\ more \in Seq(Snippet)
           /\ Within(s, at) => Within(more, at + n)
           /\ \A t : InPlace(s, t) /\ (piece.task = t => at = piece.start)
                         => InPlace(more, t)
<1> DEFINE one == [start |-> at, end |-> at + n, spoken |-> piece.start, task |-> piece.task]
           more == s \o Heading(piece, at, n)
<1> SUFFICES /\ more \in Seq(Snippet)
             /\ Within(s, at) => Within(more, at + n)
             /\ \A t : InPlace(s, t) /\ (piece.task = t => at = piece.start)
                          => InPlace(more, t)
    OBVIOUS
<1>1. Len(s) \in Nat /\ DOMAIN s = 1 .. Len(s) /\ \A i \in 1 .. Len(s) : s[i] \in Snippet
    OBVIOUS
<1>2. CASE n = 0
    <2>1. Heading(piece, at, n) = <<>>
        BY <1>2 DEF Heading
    <2>2. more = s
        BY <2>1
    <2>3. at + n = at
        BY <1>2
    <2>. HIDE DEF more
    <2>. QED
        BY <2>2, <2>3
<1>3. CASE n # 0
    <2>1. one \in Snippet
        BY <1>3 DEF Snippet, File
    <2>2. Heading(piece, at, n) = <<one>>
        BY <1>3 DEF Heading
    <2>. HIDE DEF one
    <2>3. /\ more \in Seq(Snippet) /\ Len(more) = Len(s) + 1
          /\ \A i \in 1 .. Len(s) : more[i] = s[i]
          /\ more[Len(s) + 1] = one
        BY <1>1, <2>1, <2>2
    <2>4. one.start = at /\ one.end = at + n /\ one.task = piece.task /\ one.spoken = piece.start
        BY DEF one
    <2>. HIDE DEF more
    <2>5. ASSUME Within(s, at) PROVE Apart(more)
        <3>1. ASSUME NEW i \in 1 .. Len(s) PROVE more[i].end <= more[i + 1].start
            <4>1. CASE i = Len(s)
                <5>1. Len(s) \in 1 .. Len(s) /\ s # <<>>
                    BY <1>1, <2>3, <4>1
                <5>2. more[i] = s[Len(s)] /\ more[i + 1] = one
                    BY <2>3, <4>1, <5>1
                <5>. QED
                    BY <2>4, <2>5, <5>1, <5>2 DEF Within
            <4>2. CASE i # Len(s)
                <5>1. PICK m \in Nat : m = Len(s) /\ i \in 1 .. m /\ i # m
                    BY <1>1, <4>2
                <5>2. i + 1 \in 1 .. m /\ i \in 1 .. m - 1
                    BY <5>1
                <5>3. s[i].end <= s[i + 1].start
                    BY <2>5, <5>1, <5>2 DEF Within, Apart
                <5>. QED
                    BY <2>3, <5>1, <5>2, <5>3
            <4>. QED
                BY <4>1, <4>2
        <3>2. Len(more) - 1 = Len(s)
            BY <1>1, <2>3
        <3>. QED
            BY <3>1, <3>2 DEF Apart
    <2>6. \A t : InPlace(s, t) /\ (piece.task = t => at = piece.start) => InPlace(more, t)
        <3>1. ASSUME NEW t, InPlace(s, t), piece.task = t => at = piece.start,
                     NEW i \in 1 .. Len(s) + 1, more[i].task = t
              PROVE  more[i].start = more[i].spoken
            <4>1. CASE i = Len(s) + 1
                BY <2>3, <2>4, <3>1, <4>1
            <4>2. CASE i # Len(s) + 1
                <5>1. i \in 1 .. Len(s)
                    BY <1>1, <4>2
                <5>. QED
                    BY <1>1, <2>3, <3>1, <5>1 DEF InPlace
            <4>. QED
                BY <4>1, <4>2
        <3>2. DOMAIN more = 1 .. Len(s) + 1
            BY <2>3
        <3>. QED
            BY <3>1, <3>2 DEF InPlace
    <2>7. more[Len(more)].end <= at + n
        BY <2>3, <2>4
    <2>. QED
        BY <2>3, <2>5, <2>6, <2>7 DEF Within
<1>. QED
    BY <1>2, <1>3

LEMMA TranscribePartTaskInv ==
    ASSUME TaskInv, TranscribePart
    PROVE  TaskInv'
<1> USE DEF TaskInv
<1>1. /\ stage = "openai" /\ done' = done + 1
      /\ UNCHANGED <<audio, parts, derived, tasks, spoiled>>
    BY DEF TranscribePart
<1>2. /\ parts \in Seq(File) /\ Len(parts) \in Nat /\ DOMAIN parts = 1 .. Len(parts)
      /\ done \in Nat /\ done < Len(parts) /\ done + 1 \in DOMAIN parts
      /\ audio \in Nat \ {0} /\ tasks \in Nat
    BY <1>1, AudioFacts DEF Typed, TypeOK
<1>3. PICK piece : piece = parts[done + 1]
    OBVIOUS
<1>4. PICK length : length = piece.end - piece.start
    OBVIOUS
<1>5. piece \in File /\ length \in Nat \ {0}
    BY <1>2, <1>3, <1>4 DEF File
<1>6. PICK heard \in Heard(length), told \in Told(length) :
          /\ snippets' = snippets \o Heading(piece, offset, heard)
          /\ offset' = offset + Advanced(heard, told)
          /\ timed' = (timed /\ told = length)
          /\ covered' = (covered /\ Advanced(heard, told) >= heard)
    BY <1>3, <1>4 DEF TranscribePart
<1>6a. PICK advanced : advanced = Advanced(heard, told)
    OBVIOUS
<1>7. /\ heard \in Nat
      /\ advanced \in Nat
      /\ told = length => advanced = length
      /\ covered' => covered /\ heard <= advanced
      /\ timed' => timed /\ told = length
    <2>1. heard \in Nat
        BY <1>5 DEF Heard
    <2>2. told = -1 \/ told \in Nat
        BY <1>5 DEF Told, Untold
    <2>3. advanced \in Nat /\ (told = length => advanced = length)
        BY <1>5, <1>6a, <2>1, <2>2 DEF Advanced, Untold
    <2>4. covered' => covered /\ advanced >= heard
        BY <1>6, <1>6a
    <2>5. timed' => timed /\ told = length
        BY <1>6
    <2>. QED
        BY <2>1, <2>3, <2>4, <2>5
<1>8. /\ snippets \in Seq(Snippet) /\ offset \in Nat
      /\ covered => Within(snippets, offset)
      /\ timed => /\ InPlace(snippets, tasks)
                  /\ piece.task = tasks => offset = piece.start
      /\ timed \in BOOLEAN /\ covered \in BOOLEAN
    BY <1>1, <1>3 DEF Typed, Stitching
<1>9. /\ snippets' \in Seq(Snippet)
      /\ covered => Within(snippets', offset + heard)
      /\ timed => InPlace(snippets', tasks)
    BY <1>5, <1>6, <1>7, <1>8, HeadingFacts
<1>10. /\ offset' \in Nat /\ timed' \in BOOLEAN /\ covered' \in BOOLEAN
       /\ covered' => Within(snippets', offset')
       /\ timed' => InPlace(snippets', tasks)
    <2>1. snippets' # <<>> => snippets'[Len(snippets')].end \in Nat
        <3>1. Len(snippets') \in Nat /\ (snippets' # <<>> => Len(snippets') \in 1 .. Len(snippets'))
            BY <1>9
        <3>. QED
            BY <1>9, <3>1 DEF Snippet
    <2>2. offset' = offset + advanced /\ offset' \in Nat
        BY <1>6, <1>6a, <1>7, <1>8
    <2>3. ASSUME covered' PROVE Within(snippets', offset')
        <3>1. /\ Apart(snippets') /\ heard <= advanced
              /\ snippets' # <<>> => snippets'[Len(snippets')].end <= offset + heard
            BY <1>7, <1>9, <2>3 DEF Within
        <3>. QED
            BY <1>7, <1>8, <2>1, <2>2, <3>1 DEF Within
    <2>. QED
        BY <1>6, <1>7, <1>8, <1>9, <2>2, <2>3
<1>11. Covers(parts, tasks, audio) /\ (spoiled = {} => AllOf(parts, tasks))
    BY <1>1 DEF PartsWhole
<1>12. CASE done + 1 < Len(parts)
    <2>1. UNCHANGED <<onDisk, stage, density, result>>
        BY <1>1, <1>12 DEF TranscribePart
    <2>2. Typed'
        <3>1. \A i \in DOMAIN snippets' : snippets'[i].start < snippets'[i].end
            BY <1>9 DEF Snippet
        <3>. QED
            BY <1>1, <1>2, <1>9, <1>10, <1>12, <2>1, <3>1 DEF Typed, TypeOK
    <2>3. Stitching'
        <3>1. ASSUME timed', parts[done + 2].task = tasks PROVE offset' = parts[done + 2].start
            <4>1. PICK n \in DOMAIN parts :
                      /\ \A i \in 1 .. n - 1 : parts[i].end = parts[i + 1].start
                      /\ \A i \in DOMAIN parts : parts[i].task = tasks <=> i <= n
                BY <1>11 DEF Covers
            <4>2. done + 2 \in DOMAIN parts /\ n \in Nat
                BY <1>2, <1>12
            <4>3. done + 2 <= n
                BY <3>1, <4>1, <4>2
            <4>4. done + 1 \in 1 .. n - 1 /\ (done + 1) + 1 = done + 2
                BY <1>2, <4>2, <4>3
            <4>5. piece.task = tasks /\ piece.end = parts[done + 2].start
                BY <1>2, <1>3, <4>1, <4>2, <4>4
            <4>6. timed /\ told = length
                BY <1>7, <3>1
            <4>7. offset = piece.start /\ offset' = offset + length
                BY <1>6, <1>6a, <1>7, <1>8, <4>5, <4>6
            <4>. QED
                BY <1>4, <1>5, <4>5, <4>7 DEF File
        <3>2. done' + 1 = done + 2
            BY <1>1, <1>2
        <3>. QED
            BY <1>1, <1>9, <1>10, <3>1, <3>2 DEF Stitching
    <2>4. FilesGone' /\ FilesDated' /\ PartsWhole' /\ PartsFit'
        BY <1>1, <2>1 DEF FilesGone, FilesDated, PartsWhole, PartsFit, WithinMargin, SmallParts
    <2>5. ResultSound' /\ OutlineSound'
        BY <1>1, <2>1 DEF ResultSound, OutlineSound
    <2>. QED
        BY <2>2, <2>3, <2>4, <2>5
<1>13. CASE ~(done + 1 < Len(parts))
    <2>1. /\ result' = Transcript("openai", parts, snippets', offset', timed', covered')
          /\ onDisk' = RemoveParts /\ stage' = "clean" /\ density' = density
        BY <1>1, <1>13 DEF TranscribePart
    <2>2. /\ onDisk' \in Seq(File) /\ (spoiled = {} => onDisk' = <<>>)
          /\ \A i \in DOMAIN onDisk' : onDisk'[i].task <= tasks
        BY <1>1, <2>1 DEF RemoveParts, FilesGone, FilesDated, Typed
    <2>3. result' = [backend |-> "openai", duration |-> offset', length |-> audio,
                     task |-> tasks, sent |-> parts, snippets |-> snippets',
                     timed |-> timed', covered |-> covered']
        BY <2>1 DEF Transcript
    <2>4. result' \in Transcribed
        BY <1>2, <1>9, <1>10, <2>3 DEF Transcribed
    <2>5. Typed'
        <3>1. \A i \in DOMAIN snippets' : snippets'[i].start < snippets'[i].end
            BY <1>9 DEF Snippet
        <3>2. \A i \in DOMAIN onDisk' : onDisk'[i].start < onDisk'[i].end
            BY <2>2 DEF File
        <3>3. done' \in 0 .. Len(parts')
            BY <1>1, <1>2
        <3>4. TypeOK'
            BY <1>1, <2>1, <3>1, <3>2, <3>3 DEF Typed, TypeOK, Stages
        <3>. QED
            BY <1>1, <1>9, <1>10, <2>2, <2>4, <3>4 DEF Typed
    <2>6. FilesGone' /\ FilesDated' /\ PartsWhole' /\ PartsFit' /\ Stitching'
        BY <1>1, <2>1, <2>2 DEF FilesGone, FilesDated, PartsWhole, PartsFit, Stitching
    <2>7. ResultSound'
        BY <1>1, <1>9, <1>10, <1>11, <2>3 DEF ResultSound, Within
    <2>8. OutlineSound'
        BY <1>1 DEF OutlineSound
    <2>. QED
        BY <2>5, <2>6, <2>7, <2>8
<1>. QED
    BY <1>12, <1>13

(* The call fails: its parts are removed, nothing else changes. *)
LEMMA PartFailsTaskInv ==
    ASSUME TaskInv, PartRefused \/ PartUnavailable
    PROVE  TaskInv'
<1> USE DEF TaskInv
<1>1. /\ stage = "openai" /\ stage' \in {"local", "clean"} /\ onDisk' = RemoveParts
      /\ UNCHANGED <<audio, parts, done, offset, snippets, density, timed, covered, result,
                     derived, tasks, spoiled>>
    BY DEF PartRefused, PartUnavailable, work
<1>2. /\ onDisk' \in Seq(File) /\ (spoiled = {} => onDisk' = <<>>)
      /\ \A i \in DOMAIN onDisk' : onDisk'[i].task <= tasks
    BY <1>1 DEF RemoveParts, FilesGone, FilesDated, Typed
<1>3. Typed'
    <2>1. \A i \in DOMAIN onDisk' : onDisk'[i].start < onDisk'[i].end
        BY <1>2 DEF File
    <2>. QED
        BY <1>1, <1>2, <2>1 DEF Typed, TypeOK, Stages
<1>4. FilesGone' /\ FilesDated' /\ PartsWhole' /\ PartsFit' /\ Stitching'
    BY <1>1, <1>2 DEF FilesGone, FilesDated, PartsWhole, PartsFit, Stitching
<1>5. ResultSound' /\ OutlineSound'
    BY <1>1 DEF ResultSound, OutlineSound
<1>. QED
    BY <1>3, <1>4, <1>5

LEMMA LocalTaskInv ==
    ASSUME TaskInv, TranscribeLocally \/ LocalFails
    PROVE  TaskInv'
<1> USE DEF TaskInv
<1>1. /\ stage = "local" /\ stage' = "clean"
      /\ UNCHANGED <<audio, onDisk, parts, done, offset, snippets, density, timed, covered,
                     derived, tasks, spoiled>>
    BY DEF TranscribeLocally, LocalFails, work
<1>2. audio \in Nat \ {0} /\ tasks \in Nat
    BY <1>1, AudioFacts DEF Typed
<1>3. /\ result' # NoAudio => result' \in Transcribed
      /\ ResultSound'
    <2>1. CASE result' = result
        BY <1>1, <2>1 DEF Typed, ResultSound
    <2>2. CASE TranscribeLocally
        <3>1. PICK heard \in Heard(audio) :
                  result' = Transcript("local", <<Piece(0, audio)>>,
                                       Heading(Piece(0, audio), 0, heard), audio, TRUE, TRUE)
            BY <2>2 DEF TranscribeLocally
        <3>2. PICK piece, s, p : /\ piece = Piece(0, audio)
                                 /\ s = Heading(piece, 0, heard)
                                 /\ p = <<piece>>
            OBVIOUS
        <3>3. piece \in File /\ piece.start = 0 /\ piece.end = audio /\ piece.task = tasks
            BY <1>2, <3>2 DEF Piece, File
        <3>4. heard \in Nat
            BY <1>2 DEF Heard
        <3>5. /\ s \in Seq(Snippet) /\ Apart(s) /\ InPlace(s, tasks)
            <4>1. CASE heard = 0
                <5>1. s = <<>>
                    BY <3>2, <4>1 DEF Heading
                <5>. QED
                    BY <5>1 DEF Apart, InPlace
            <4>2. CASE heard # 0
                <5>1. PICK one : one = [start |-> 0, end |-> 0 + heard, spoken |-> piece.start,
                                        task |-> piece.task]
                    OBVIOUS
                <5>2. s = <<one>> /\ one \in Snippet /\ one.start = one.spoken
                    BY <1>2, <3>2, <3>3, <3>4, <4>2, <5>1 DEF Heading, Snippet
                <5>. QED
                    BY <5>2 DEF Apart, InPlace
            <4>. QED
                BY <4>1, <4>2
        <3>6. /\ p \in Seq(File) /\ Covers(p, tasks, audio) /\ AllOf(p, tasks)
            <4>1. p \in Seq(File) /\ Len(p) = 1 /\ DOMAIN p = {1} /\ p[1] = piece
                BY <3>2, <3>3
            <4>. QED
                BY <3>3, <4>1 DEF Covers, AllOf
        <3>7. result' = [backend |-> "local", duration |-> audio, length |-> audio,
                         task |-> tasks, sent |-> p, snippets |-> s,
                         timed |-> TRUE, covered |-> TRUE]
            BY <3>1, <3>2 DEF Transcript
        <3>8. result' \in Transcribed
            BY <1>2, <3>5, <3>6, <3>7 DEF Transcribed
        <3>. QED
            BY <1>1, <3>5, <3>6, <3>7, <3>8 DEF ResultSound
    <2>. QED
        BY <2>1, <2>2 DEF LocalFails
<1>4. Typed'
    BY <1>1, <1>3 DEF Typed, TypeOK, Stages
<1>5. FilesGone' /\ FilesDated' /\ PartsWhole' /\ PartsFit' /\ Stitching'
    BY <1>1 DEF FilesGone, FilesDated, PartsWhole, PartsFit, Stitching
<1>6. OutlineSound'
    BY <1>1 DEF OutlineSound
<1>. QED
    BY <1>3, <1>4, <1>5, <1>6

LEMMA CleanTaskInv ==
    ASSUME TaskInv, Clean
    PROVE  TaskInv'
<1> USE DEF TaskInv
<1>1. /\ stage = "clean" /\ stage' = "idle" /\ audio' = NoAudio
      /\ parts' = <<>> /\ done' = 0 /\ offset' = 0 /\ snippets' = <<>>
      /\ density' = 0 /\ timed' = TRUE /\ covered' = TRUE
      /\ UNCHANGED <<onDisk, result, derived, tasks, spoiled>>
    BY DEF Clean, Forgotten
<1>2. <<>> \in Seq(File) /\ <<>> \in Seq(Snippet) /\ Len(<<>>) = 0 /\ DOMAIN <<>> = {}
    OBVIOUS
<1>3. TypeOK'
    BY <1>1, <1>2 DEF Typed, TypeOK, Stages
<1>4. Typed'
    BY <1>1, <1>2, <1>3 DEF Typed
<1>5. FilesGone' /\ FilesDated' /\ PartsWhole' /\ PartsFit' /\ Stitching'
    BY <1>1 DEF FilesGone, FilesDated, PartsWhole, PartsFit, Stitching
<1>6. ResultSound' /\ OutlineSound'
    BY <1>1 DEF ResultSound, OutlineSound
<1>. QED
    BY <1>4, <1>5, <1>6

LEMMA KillTaskInv ==
    ASSUME TaskInv, Kill
    PROVE  TaskInv'
<1> USE DEF TaskInv
<1>1. /\ stage # "idle" /\ stage' = "idle"
      /\ spoiled' = spoiled \union {"killed"} /\ spoiled' # {}
      /\ parts' = <<>> /\ done' = 0 /\ offset' = 0 /\ snippets' = <<>>
      /\ density' = 0 /\ timed' = TRUE /\ covered' = TRUE
      /\ UNCHANGED <<audio, result, derived, tasks>>
    BY DEF Kill, Forgotten
<1>2. <<>> \in Seq(File) /\ <<>> \in Seq(Snippet) /\ Len(<<>>) = 0 /\ DOMAIN <<>> = {}
    OBVIOUS
<1>3. onDisk' \in Seq(File) /\ \A i \in DOMAIN onDisk' : onDisk'[i].task <= tasks
    <2>1. CASE onDisk' = onDisk
        BY <2>1 DEF Typed, FilesDated
    <2>2. CASE stage = "split" /\ audio * Rate > MaxBytes
        <3>1. PICK n \in 0 .. Len(Segments(audio)) : onDisk' = Written(n)
            BY <2>2 DEF Kill
        <3>. QED
            BY <2>2, <3>1, WrittenFacts
    <2>. QED
        BY <2>1, <2>2 DEF Kill
<1>4. \A i \in DOMAIN onDisk' : onDisk'[i].start < onDisk'[i].end
    BY <1>3 DEF File
<1>5. TypeOK'
    BY <1>1, <1>2, <1>4 DEF Typed, TypeOK, Stages
<1>6. Typed'
    BY <1>1, <1>2, <1>3, <1>5 DEF Typed
<1>7. FilesGone' /\ FilesDated' /\ PartsWhole' /\ PartsFit' /\ Stitching'
    BY <1>1, <1>3 DEF FilesGone, FilesDated, PartsWhole, PartsFit, Stitching
<1>8. ResultSound' /\ OutlineSound'
    BY <1>1 DEF ResultSound, OutlineSound
<1>. QED
    BY <1>6, <1>7, <1>8

LEMMA DeriveTaskInv ==
    ASSUME TaskInv, Derive
    PROVE  TaskInv'
<1> USE DEF TaskInv
<1>1. /\ stage = "idle" /\ result # NoAudio
      /\ UNCHANGED <<audio, onDisk, stage, parts, done, offset, snippets, density, timed,
                     covered, result, tasks, spoiled>>
    BY DEF Derive, work
<1>2. Typed' /\ FilesGone' /\ FilesDated' /\ PartsWhole' /\ PartsFit' /\ Stitching' /\ ResultSound'
    BY <1>1 DEF Typed, TypeOK, FilesGone, FilesDated, PartsWhole, PartsFit,
                WithinMargin, SmallParts, Stitching, ResultSound
<1>3. OutlineSound'
    BY <1>1 DEF Derive, OutlineSound
<1>. QED
    BY <1>2, <1>3

-----------------------------------------------------------------------------
(***************************************************************************)
(* The folds of Outline, one place after the other.                        *)
(***************************************************************************)
LEMMA MonotonicSteps ==
    ASSUME NEW s \in Seq(Span)
    PROVE  \E acc \in [0 .. Len(s) -> Seq(Span)] :
               /\ acc[0] = <<>>
               /\ \A i \in 1 .. Len(s) :
                     acc[i] = IF acc[i - 1] = <<>> \/ Last(acc[i - 1]).start < s[i].start
                              THEN Append(acc[i - 1], s[i]) ELSE acc[i - 1]
               /\ Monotonic(s) = acc[Len(s)]
<1> DEFINE Kept(kept, e) ==
               IF kept = <<>> \/ Last(kept).start < e.start THEN Append(kept, e) ELSE kept
           Body(it) == [S \in SUBSET (DOMAIN s) |->
                           IF S = {} THEN <<>> ELSE Kept(it[S \ {Max(S)}], s[Max(S)])]
<1>0. PICK A, base : A = Seq(Span) /\ base = <<>>
    OBVIOUS
<1>1. Monotonic(s) = (CHOOSE it : it = Body(it))[DOMAIN s]
    BY DEF Monotonic, FoldLeft, MapThenFoldSet
<1>2. PICK n \in Nat : n = Len(s) /\ DOMAIN s = 1 .. n
    OBVIOUS
<1> DEFINE step == [p \in (1 .. n) \X A |-> Kept(p[2], s[p[1]])]
<1>3. step \in [(1 .. n) \X A -> A] /\ base \in A
    BY <1>0, <1>2
<1>4. \A i \in 1 .. n : \A kept \in A : step[<<i, kept>>] = Kept(kept, s[i])
    OBVIOUS
<1> HIDE DEF step, Kept
<1>5. \E it : it = Body(it)
    <2>1. PICK it : it \in [SUBSET (1 .. n) -> A] /\ IsLeftFold(it, n, A, base, step)
        BY <1>3, LeftFoldExists
    <2>2. \A S \in SUBSET (1 .. n) : S # {} => Max(S) \in 1 .. n /\ S \ {Max(S)} \in SUBSET (1 .. n)
        BY LastPlace
    <2>3. \A S \in SUBSET (1 .. n) :
              it[S] = IF S = {} THEN <<>> ELSE Kept(it[S \ {Max(S)}], s[Max(S)])
        BY <1>0, <1>4, <2>1, <2>2 DEF IsLeftFold
    <2>4. it = Body(it)
        BY <1>2, <2>1, <2>3
    <2>. QED
        BY <2>4
<1>6. PICK it : it = Body(it) /\ Monotonic(s) = it[1 .. n]
    BY <1>1, <1>2, <1>5
<1>7. \A S \in SUBSET (1 .. n) :
          it[S] = IF S = {} THEN <<>> ELSE Kept(it[S \ {Max(S)}], s[Max(S)])
    BY <1>2, <1>6
<1>8. IsLeftFold(it, n, A, base, step)
    <2>1. \A S \in SUBSET (1 .. n) : S # {} => Max(S) \in 1 .. n
        BY LastPlace
    <2>. QED
        BY <1>0, <1>4, <1>7, <2>1 DEF IsLeftFold
<1> HIDE DEF Body
<1>9. PICK acc : Steps(acc, n, A, base, step) /\ acc[n] = it[1 .. n]
    <2>1. GoesThrough(it, n, A, base, step)
        BY <1>3, <1>8, LeftFoldSteps
    <2>. QED
        BY <2>1 DEF GoesThrough
<1>10. acc \in [0 .. n -> Seq(Span)] /\ acc[0] = <<>>
    BY <1>0, <1>9 DEF Steps
<1>11. ASSUME NEW i \in 1 .. n PROVE acc[i] = Kept(acc[i - 1], s[i])
    <2>1. acc[i - 1] \in A
        BY <1>9 DEF Steps
    <2>. QED
        BY <1>4, <1>9, <2>1 DEF Steps
<1>12. \A i \in 1 .. Len(s) : acc[i] = Kept(acc[i - 1], s[i])
    BY <1>2, <1>11
<1>13. acc \in [0 .. Len(s) -> Seq(Span)] /\ Monotonic(s) = acc[Len(s)]
    BY <1>2, <1>6, <1>9, <1>10
<1> SUFFICES \E a \in [0 .. Len(s) -> Seq(Span)] :
                 /\ a[0] = <<>>
                 /\ \A i \in 1 .. Len(s) : a[i] = Kept(a[i - 1], s[i])
                 /\ Monotonic(s) = a[Len(s)]
    BY DEF Kept
<1>. QED
    BY <1>10, <1>12, <1>13

LEMMA ClampedSpan ==
    ASSUME NEW e \in Span, NEW duration \in Int
    PROVE  Clamped(e, duration) \in Span /\ Clamped(e, duration).start = e.start
BY DEF Clamped, Span

LEMMA AcceptedSteps ==
    ASSUME NEW s \in Seq(Span), NEW duration \in Int
    PROVE  \E acc \in [0 .. Len(s) -> Seq(Span)] :
               /\ acc[0] = <<>>
               /\ \A i \in 1 .. Len(s) :
                     acc[i] = IF Sound(s[i]) THEN Append(acc[i - 1], Clamped(s[i], duration))
                              ELSE acc[i - 1]
               /\ Accepted(s, duration) = acc[Len(s)]
<1> DEFINE Kept(kept, e) ==
               IF Sound(e) THEN Append(kept, Clamped(e, duration)) ELSE kept
           Body(it) == [S \in SUBSET (DOMAIN s) |->
                           IF S = {} THEN <<>> ELSE Kept(it[S \ {Max(S)}], s[Max(S)])]
<1>0. PICK A, base : A = Seq(Span) /\ base = <<>>
    OBVIOUS
<1>1. Accepted(s, duration) = (CHOOSE it : it = Body(it))[DOMAIN s]
    BY DEF Accepted, FoldLeft, MapThenFoldSet
<1>2. PICK n \in Nat : n = Len(s) /\ DOMAIN s = 1 .. n
    OBVIOUS
<1> DEFINE step == [p \in (1 .. n) \X A |-> Kept(p[2], s[p[1]])]
<1>3. step \in [(1 .. n) \X A -> A] /\ base \in A
    <2>1. \A i \in 1 .. n : \A kept \in A : Kept(kept, s[i]) \in A
        BY <1>0, <1>2, ClampedSpan
    <2>. QED
        BY <1>0, <2>1
<1>4. \A i \in 1 .. n : \A kept \in A : step[<<i, kept>>] = Kept(kept, s[i])
    OBVIOUS
<1> HIDE DEF step, Kept
<1>5. \E it : it = Body(it)
    <2>1. PICK it : it \in [SUBSET (1 .. n) -> A] /\ IsLeftFold(it, n, A, base, step)
        BY <1>3, LeftFoldExists
    <2>2. \A S \in SUBSET (1 .. n) : S # {} => Max(S) \in 1 .. n /\ S \ {Max(S)} \in SUBSET (1 .. n)
        BY LastPlace
    <2>3. \A S \in SUBSET (1 .. n) :
              it[S] = IF S = {} THEN <<>> ELSE Kept(it[S \ {Max(S)}], s[Max(S)])
        BY <1>0, <1>4, <2>1, <2>2 DEF IsLeftFold
    <2>4. it = Body(it)
        BY <1>2, <2>1, <2>3
    <2>. QED
        BY <2>4
<1>6. PICK it : it = Body(it) /\ Accepted(s, duration) = it[1 .. n]
    BY <1>1, <1>2, <1>5
<1>7. \A S \in SUBSET (1 .. n) :
          it[S] = IF S = {} THEN <<>> ELSE Kept(it[S \ {Max(S)}], s[Max(S)])
    BY <1>2, <1>6
<1>8. IsLeftFold(it, n, A, base, step)
    <2>1. \A S \in SUBSET (1 .. n) : S # {} => Max(S) \in 1 .. n
        BY LastPlace
    <2>. QED
        BY <1>0, <1>4, <1>7, <2>1 DEF IsLeftFold
<1> HIDE DEF Body
<1>9. PICK acc : Steps(acc, n, A, base, step) /\ acc[n] = it[1 .. n]
    <2>1. GoesThrough(it, n, A, base, step)
        BY <1>3, <1>8, LeftFoldSteps
    <2>. QED
        BY <2>1 DEF GoesThrough
<1>10. acc \in [0 .. n -> Seq(Span)] /\ acc[0] = <<>>
    BY <1>0, <1>9 DEF Steps
<1>11. ASSUME NEW i \in 1 .. n PROVE acc[i] = Kept(acc[i - 1], s[i])
    <2>1. acc[i - 1] \in A
        BY <1>9 DEF Steps
    <2>. QED
        BY <1>4, <1>9, <2>1 DEF Steps
<1>12. \A i \in 1 .. Len(s) : acc[i] = Kept(acc[i - 1], s[i])
    BY <1>2, <1>11
<1>13. acc \in [0 .. Len(s) -> Seq(Span)] /\ Accepted(s, duration) = acc[Len(s)]
    BY <1>2, <1>6, <1>9, <1>10
<1> SUFFICES \E a \in [0 .. Len(s) -> Seq(Span)] :
                 /\ a[0] = <<>>
                 /\ \A i \in 1 .. Len(s) : a[i] = Kept(a[i - 1], s[i])
                 /\ Accepted(s, duration) = a[Len(s)]
    BY DEF Kept
<1>. QED
    BY <1>10, <1>12, <1>13

LEMMA BestTurnSteps ==
    ASSUME NEW s \in Seq(Span), NEW snippet
    PROVE  \E acc \in [0 .. Len(s) -> 0 .. Len(s)] :
               /\ acc[0] = 0
               /\ \A i \in 1 .. Len(s) :
                     acc[i] = IF Overlap(snippet, s[i]) > Reached(acc[i - 1], snippet, s)
                              THEN i ELSE acc[i - 1]
               /\ BestTurn(snippet, s) = acc[Len(s)]
<1> DEFINE Better(best, i) ==
               IF Overlap(snippet, s[i]) > Reached(best, snippet, s) THEN i ELSE best
           places == [i \in DOMAIN s |-> i]
           Body(it) == [S \in SUBSET (DOMAIN places) |->
                           IF S = {} THEN 0 ELSE Better(it[S \ {Max(S)}], places[Max(S)])]
<1>0. PICK A, base : A = 0 .. Len(s) /\ base = 0
    OBVIOUS
<1>1. BestTurn(snippet, s) = (CHOOSE it : it = Body(it))[DOMAIN places]
    BY DEF BestTurn, FoldLeft, MapThenFoldSet
<1>2. PICK n \in Nat : n = Len(s) /\ DOMAIN s = 1 .. n
    OBVIOUS
<1>2a. DOMAIN places = 1 .. n /\ \A S \in SUBSET (1 .. n) : S # {} => places[Max(S)] = Max(S)
    BY <1>2, LastPlace
<1> DEFINE step == [p \in (1 .. n) \X A |-> Better(p[2], p[1])]
<1>3. step \in [(1 .. n) \X A -> A] /\ base \in A
    BY <1>0, <1>2
<1>4. \A i \in 1 .. n : \A best \in A : step[<<i, best>>] = Better(best, i)
    OBVIOUS
<1> HIDE DEF step, Better, places
<1>5. \E it : it = Body(it)
    <2>1. PICK it : it \in [SUBSET (1 .. n) -> A] /\ IsLeftFold(it, n, A, base, step)
        BY <1>3, LeftFoldExists
    <2>2. \A S \in SUBSET (1 .. n) : S # {} => Max(S) \in 1 .. n /\ S \ {Max(S)} \in SUBSET (1 .. n)
        BY LastPlace
    <2>3. \A S \in SUBSET (1 .. n) :
              it[S] = IF S = {} THEN 0 ELSE Better(it[S \ {Max(S)}], Max(S))
        BY <1>0, <1>4, <2>1, <2>2 DEF IsLeftFold
    <2>4. it = Body(it)
        BY <1>2a, <2>1, <2>3
    <2>. QED
        BY <2>4
<1>6. PICK it : it = Body(it) /\ BestTurn(snippet, s) = it[1 .. n]
    BY <1>1, <1>2a, <1>5
<1>7. \A S \in SUBSET (1 .. n) :
          it[S] = IF S = {} THEN 0 ELSE Better(it[S \ {Max(S)}], Max(S))
    BY <1>2a, <1>6
<1>8. IsLeftFold(it, n, A, base, step)
    <2>1. \A S \in SUBSET (1 .. n) : S # {} => Max(S) \in 1 .. n
        BY LastPlace
    <2>. QED
        BY <1>0, <1>4, <1>7, <2>1 DEF IsLeftFold
<1> HIDE DEF Body
<1>9. PICK acc : Steps(acc, n, A, base, step) /\ acc[n] = it[1 .. n]
    <2>1. GoesThrough(it, n, A, base, step)
        BY <1>3, <1>8, LeftFoldSteps
    <2>. QED
        BY <2>1 DEF GoesThrough
<1>10. acc \in [0 .. n -> 0 .. n] /\ acc[0] = 0
    BY <1>0, <1>2, <1>9 DEF Steps
<1>11. ASSUME NEW i \in 1 .. n PROVE acc[i] = Better(acc[i - 1], i)
    <2>1. acc[i - 1] \in A
        BY <1>9 DEF Steps
    <2>. QED
        BY <1>4, <1>9, <2>1 DEF Steps
<1>12. \A i \in 1 .. Len(s) : acc[i] = Better(acc[i - 1], i)
    BY <1>2, <1>11
<1>13. acc \in [0 .. Len(s) -> 0 .. Len(s)] /\ BestTurn(snippet, s) = acc[Len(s)]
    BY <1>2, <1>6, <1>9, <1>10
<1> SUFFICES \E a \in [0 .. Len(s) -> 0 .. Len(s)] :
                 /\ a[0] = 0
                 /\ \A i \in 1 .. Len(s) : a[i] = Better(a[i - 1], i)
                 /\ BestTurn(snippet, s) = a[Len(s)]
    BY DEF Better
<1>. QED
    BY <1>10, <1>12, <1>13

LEMMA SpanFacts ==
    \A e \in Span : e.start \in Int /\ e.end \in Int
BY DEF Span

LEMMA AppendFacts ==
    ASSUME NEW c \in Seq(Span), NEW e \in Span, NEW m, m = Len(c), NEW more, more = Append(c, e)
    PROVE  /\ m \in Nat /\ DOMAIN c = 1 .. m /\ \A k \in 1 .. m : c[k] \in Span
           /\ more \in Seq(Span) /\ Len(more) = m + 1 /\ DOMAIN more = 1 .. m + 1
           /\ \A k \in 1 .. m : more[k] = c[k]
           /\ more[m + 1] = e
OBVIOUS

Rising(c) == \A i \in 1 .. Len(c) - 1 : c[i].start < c[i + 1].start

(* None of the first i entries of s starts after all of c. *)
Reaches(c, s, i) ==
    \A j \in 1 .. i : \E k \in DOMAIN c : c[k].start >= s[j].start

LEMMA ReachesMore ==
    ASSUME NEW s, NEW n \in Nat, NEW i \in 1 .. n, NEW c, NEW more,
           Reaches(c, s, i - 1),
           \A k \in DOMAIN c : k \in DOMAIN more /\ more[k] = c[k],
           \E k \in DOMAIN more : more[k].start >= s[i].start
    PROVE  Reaches(more, s, i)
<1>1. ASSUME NEW j \in 1 .. i PROVE \E k \in DOMAIN more : more[k].start >= s[j].start
    <2>1. CASE j = i
        BY <2>1
    <2>2. CASE j # i
        <3>1. j \in 1 .. i - 1
            BY <2>2
        <3>2. PICK k \in DOMAIN c : c[k].start >= s[j].start
            BY <3>1 DEF Reaches
        <3>. QED
            BY <3>2
    <2>. QED
        BY <2>1, <2>2
<1>. QED
    BY <1>1 DEF Reaches

LEMMA RisingMore ==
    ASSUME NEW c \in Seq(Span), NEW e \in Span, Rising(c),
           c = <<>> \/ Last(c).start < e.start
    PROVE  Rising(Append(c, e))
<1>1. PICK m, more : m = Len(c) /\ more = Append(c, e)
    OBVIOUS
<1>2. /\ m \in Nat /\ DOMAIN c = 1 .. m /\ \A k \in 1 .. m : c[k] \in Span
      /\ Len(more) = m + 1
      /\ \A k \in 1 .. m : more[k] = c[k]
      /\ more[m + 1] = e
    BY <1>1, AppendFacts
<1>3. m # 0 => c[m].start < e.start
    BY <1>1 DEF Last
<1>4. ASSUME NEW k \in 1 .. m PROVE more[k].start < more[k + 1].start
    <2>1. CASE k = m
        BY <1>2, <1>3, <2>1
    <2>2. CASE k # m
        <3>1. k \in 1 .. m - 1 /\ k + 1 \in 1 .. m
            BY <1>2, <2>2
        <3>2. c[k].start < c[k + 1].start
            BY <1>1, <3>1 DEF Rising
        <3>. QED
            BY <1>2, <3>1, <3>2
    <2>. QED
        BY <2>1, <2>2
<1>5. Len(more) - 1 = m
    BY <1>2
<1>6. Rising(more)
    BY <1>4, <1>5 DEF Rising
<1>. QED
    BY <1>1, <1>6

(* What is kept rises, and what is dropped starts no later than something kept. *)
LEMMA MonotonicFacts ==
    ASSUME NEW s \in Seq(Span)
    PROVE  /\ Monotonic(s) \in Seq(Span)
           /\ Rising(Monotonic(s))
           /\ Reaches(Monotonic(s), s, Len(s))
<1>1. PICK n \in Nat : n = Len(s) /\ DOMAIN s = 1 .. n
    OBVIOUS
<1>2. PICK acc \in [0 .. Len(s) -> Seq(Span)] :
          /\ acc[0] = <<>>
          /\ \A i \in 1 .. Len(s) :
                acc[i] = IF acc[i - 1] = <<>> \/ Last(acc[i - 1]).start < s[i].start
                         THEN Append(acc[i - 1], s[i]) ELSE acc[i - 1]
          /\ Monotonic(s) = acc[Len(s)]
    BY MonotonicSteps
<1> DEFINE P == {i \in 0 .. n : Rising(acc[i]) /\ Reaches(acc[i], s, i)}
<1>3. 0 \in P
    <2>1. Rising(<<>>) /\ Reaches(<<>>, s, 0)
        BY DEF Rising, Reaches
    <2>. QED
        BY <1>2, <2>1
<1>4. ASSUME NEW i \in 1 .. n, i - 1 \in P PROVE i \in P
    <2>1. PICK c, e : c = acc[i - 1] /\ e = s[i]
        OBVIOUS
    <2>2. Rising(c) /\ Reaches(c, s, i - 1)
        BY <1>4, <2>1
    <2>3. i - 1 \in 0 .. n /\ i \in DOMAIN s
        BY <1>1
    <2>4. c \in Seq(Span)
        BY <1>1, <1>2, <2>1, <2>3
    <2>5. e \in Span
        BY <2>1, <2>3
    <2>6. acc[i] = IF c = <<>> \/ Last(c).start < e.start THEN Append(c, e) ELSE c
        BY <1>1, <1>2, <2>1
    <2>7. PICK m, more : m = Len(c) /\ more = Append(c, e)
        OBVIOUS
    <2>8. /\ m \in Nat /\ DOMAIN c = 1 .. m /\ \A k \in 1 .. m : c[k] \in Span
          /\ DOMAIN more = 1 .. m + 1
          /\ \A k \in 1 .. m : more[k] = c[k]
          /\ more[m + 1] = e
        BY <2>4, <2>5, <2>7, AppendFacts
    <2>9. e.start \in Int /\ \A k \in 1 .. m : c[k].start \in Int
        BY <2>5, <2>8, SpanFacts
    <2>10. CASE c = <<>> \/ Last(c).start < e.start
        <3>1. Rising(more)
            BY <2>2, <2>4, <2>5, <2>7, <2>10, RisingMore
        <3>2. \A k \in DOMAIN c : k \in DOMAIN more /\ more[k] = c[k]
            BY <2>8
        <3>3. m + 1 \in DOMAIN more /\ more[m + 1].start >= s[i].start
            BY <2>1, <2>8, <2>9
        <3>4. Reaches(more, s, i)
            BY <2>2, <3>2, <3>3, ReachesMore
        <3>. QED
            BY <2>6, <2>7, <2>10, <3>1, <3>4
    <2>11. CASE ~(c = <<>> \/ Last(c).start < e.start)
        <3>1. m \in DOMAIN c /\ c[m].start >= s[i].start
            BY <2>1, <2>4, <2>7, <2>8, <2>9, <2>11 DEF Last
        <3>2. Reaches(c, s, i)
            BY <2>2, <3>1, ReachesMore
        <3>. QED
            BY <2>2, <2>6, <2>11, <3>2
    <2>. QED
        BY <2>10, <2>11
<1>5. \A i \in 1 .. n : i - 1 \in P => i \in P
    BY <1>4
<1>6. n \in P
    <2>. HIDE DEF P
    <2>. QED
        BY <1>3, <1>5, UpTo, SMTT(40)
<1>7. Rising(acc[n]) /\ Reaches(acc[n], s, n)
    BY <1>6
<1>. QED
    BY <1>1, <1>2, <1>7

(* The first i entries of s that are sound have their starts in c. *)
Holds(c, s, i) ==
    \A j \in 1 .. i : Sound(s[j]) => \E k \in DOMAIN c : c[k].start = s[j].start

LEMMA HoldsMore ==
    ASSUME NEW s, NEW n \in Nat, NEW i \in 1 .. n, NEW c, NEW more,
           Holds(c, s, i - 1),
           \A k \in DOMAIN c : k \in DOMAIN more /\ more[k] = c[k],
           Sound(s[i]) => \E k \in DOMAIN more : more[k].start = s[i].start
    PROVE  Holds(more, s, i)
<1>1. ASSUME NEW j \in 1 .. i, Sound(s[j])
      PROVE  \E k \in DOMAIN more : more[k].start = s[j].start
    <2>1. CASE j = i
        BY <1>1, <2>1
    <2>2. CASE j # i
        <3>1. j \in 1 .. i - 1
            BY <2>2
        <3>2. PICK k \in DOMAIN c : c[k].start = s[j].start
            BY <1>1, <3>1 DEF Holds
        <3>. QED
            BY <3>2
    <2>. QED
        BY <2>1, <2>2
<1>. QED
    BY <1>1 DEF Holds

LEMMA FirstOfFacts ==
    ASSUME NEW s \in Seq(Span), NEW n \in Nat
    PROVE  /\ FirstOf(s, n) \in Seq(Span)
           /\ \A j \in DOMAIN FirstOf(s, n) : FirstOf(s, n)[j] = s[j]
<1>1. PICK m \in Nat : m = Len(s) /\ DOMAIN s = 1 .. m
    OBVIOUS
<1>2. PICK l \in 0 .. m : l = IF Len(s) < n THEN Len(s) ELSE n
    BY <1>1
<1>3. FirstOf(s, n) = SubSeq(s, 1, l)
    BY <1>2 DEF FirstOf
<1>4. SubSeq(s, 1, l) = [i \in 1 .. l |-> s[i]]
    BY <1>1, <1>2
<1>5. \A i \in 1 .. l : s[i] \in Span
    BY <1>1, <1>2
<1>. QED
    BY <1>2, <1>3, <1>4, <1>5

(* Every sound entry is accepted with the start it has. *)
LEMMA AcceptedFacts ==
    ASSUME NEW s \in Seq(Span), NEW duration \in Int
    PROVE  /\ Accepted(s, duration) \in Seq(Span)
           /\ Holds(Accepted(s, duration), s, Len(s))
<1>1. PICK n \in Nat : n = Len(s) /\ DOMAIN s = 1 .. n
    OBVIOUS
<1>2. PICK acc \in [0 .. Len(s) -> Seq(Span)] :
          /\ acc[0] = <<>>
          /\ \A i \in 1 .. Len(s) :
                acc[i] = IF Sound(s[i]) THEN Append(acc[i - 1], Clamped(s[i], duration))
                         ELSE acc[i - 1]
          /\ Accepted(s, duration) = acc[Len(s)]
    BY AcceptedSteps
<1> DEFINE P == {i \in 0 .. n : Holds(acc[i], s, i)}
<1>3. 0 \in P
    <2>1. Holds(<<>>, s, 0)
        BY DEF Holds
    <2>. QED
        BY <1>2, <2>1
<1>4. ASSUME NEW i \in 1 .. n, i - 1 \in P PROVE i \in P
    <2>1. PICK c, e : c = acc[i - 1] /\ e = Clamped(s[i], duration)
        OBVIOUS
    <2>2. Holds(c, s, i - 1)
        BY <1>4, <2>1
    <2>3. i - 1 \in 0 .. n /\ i \in DOMAIN s
        BY <1>1
    <2>4. c \in Seq(Span)
        BY <1>1, <1>2, <2>1, <2>3
    <2>5. e \in Span /\ e.start = s[i].start
        <3>1. PICK x \in Span : x = s[i]
            BY <2>3
        <3>2. Clamped(x, duration) \in Span /\ Clamped(x, duration).start = x.start
            BY ClampedSpan
        <3>. QED
            BY <2>1, <3>1, <3>2
    <2>6. acc[i] = IF Sound(s[i]) THEN Append(c, e) ELSE c
        BY <1>1, <1>2, <2>1
    <2>7. PICK m, more : m = Len(c) /\ more = Append(c, e)
        OBVIOUS
    <2>8. /\ m \in Nat /\ DOMAIN c = 1 .. m
          /\ DOMAIN more = 1 .. m + 1
          /\ \A k \in 1 .. m : more[k] = c[k]
          /\ more[m + 1] = e
        BY <2>4, <2>5, <2>7, AppendFacts
    <2>9. CASE Sound(s[i])
        <3>1. \A k \in DOMAIN c : k \in DOMAIN more /\ more[k] = c[k]
            BY <2>8
        <3>2. m + 1 \in DOMAIN more /\ more[m + 1].start = s[i].start
            BY <2>5, <2>8
        <3>3. Holds(more, s, i)
            BY <2>2, <3>1, <3>2, HoldsMore
        <3>4. acc[i] = more
            BY <2>6, <2>7, <2>9
        <3>. QED
            BY <3>3, <3>4
    <2>10. CASE ~ Sound(s[i])
        <3>1. Holds(c, s, i)
            BY <2>2, <2>10, HoldsMore
        <3>. QED
            BY <2>6, <2>10, <3>1
    <2>. QED
        BY <2>9, <2>10
<1>5. \A i \in 1 .. n : i - 1 \in P => i \in P
    BY <1>4
<1>6. n \in P
    <2>. HIDE DEF P
    <2>. QED
        BY <1>3, <1>5, UpTo, SMTT(40)
<1>7. Holds(acc[n], s, n)
    BY <1>6
<1>. QED
    BY <1>1, <1>2, <1>7

(* Of the first i overlaps, the k-th is the first of the largest; 0 if all are. *)
Best(ov, k, i) ==
    /\ k \in 0 .. i
    /\ k = 0 => \A j \in 1 .. i : ov[j] = 0
    /\ k # 0 => /\ ov[k] > 0
                /\ \A j \in 1 .. i : ov[j] <= ov[k]
                /\ \A j \in 1 .. k - 1 : ov[j] < ov[k]

LEMMA BestMore ==
    ASSUME NEW n \in Nat, NEW ov \in [1 .. n -> Nat], NEW i \in 1 .. n, NEW k,
           Best(ov, k, i - 1)
    PROVE  Best(ov, IF ov[i] > (IF k = 0 THEN 0 ELSE ov[k]) THEN i ELSE k, i)
<1>1. \A j \in 1 .. i : (j = i \/ j \in 1 .. i - 1) /\ ov[j] \in Nat
    OBVIOUS
<1>2. k \in 0 .. i - 1
    BY DEF Best
<1>3. CASE k = 0
    <2>1. \A j \in 1 .. i - 1 : ov[j] = 0
        BY <1>3 DEF Best
    <2>2. CASE ov[i] > 0
        <3>1. \A j \in 1 .. i - 1 : ov[j] < ov[i]
            BY <2>1, <2>2
        <3>2. \A j \in 1 .. i : ov[j] <= ov[i]
            BY <1>1, <3>1
        <3>3. Best(ov, i, i)
            BY <2>2, <3>1, <3>2 DEF Best
        <3>. QED
            BY <1>3, <2>2, <3>3
    <2>3. CASE ~(ov[i] > 0)
        <3>1. \A j \in 1 .. i : ov[j] = 0
            BY <1>1, <2>1, <2>3
        <3>2. Best(ov, k, i)
            BY <1>2, <1>3, <3>1 DEF Best
        <3>. QED
            BY <1>3, <2>3, <3>2
    <2>. QED
        BY <2>2, <2>3
<1>4. CASE k # 0
    <2>1. /\ k \in 1 .. i - 1 /\ ov[k] \in Nat /\ ov[k] > 0
          /\ \A j \in 1 .. i - 1 : ov[j] <= ov[k]
          /\ \A j \in 1 .. k - 1 : ov[j] < ov[k]
        BY <1>1, <1>2, <1>4 DEF Best
    <2>2. CASE ov[i] > ov[k]
        <3>1. \A j \in 1 .. i - 1 : ov[j] < ov[i]
            BY <1>1, <2>1, <2>2
        <3>2. \A j \in 1 .. i : ov[j] <= ov[i]
            BY <1>1, <3>1
        <3>3. Best(ov, i, i)
            BY <2>1, <2>2, <3>1, <3>2 DEF Best
        <3>. QED
            BY <1>4, <2>2, <3>3
    <2>3. CASE ~(ov[i] > ov[k])
        <3>1. \A j \in 1 .. i : ov[j] <= ov[k]
            BY <1>1, <2>1, <2>3
        <3>2. Best(ov, k, i)
            BY <1>2, <1>4, <2>1, <3>1 DEF Best
        <3>. QED
            BY <1>4, <2>3, <3>2
    <2>. QED
        BY <2>2, <2>3
<1>. QED
    BY <1>3, <1>4

(* The chosen turn overlaps most, and is the first that does. *)
LEMMA BestTurnFacts ==
    ASSUME NEW s \in Seq(Span), NEW snippet \in Snippet,
           NEW ov, ov = [j \in 1 .. Len(s) |-> Overlap(snippet, s[j])]
    PROVE  ov \in [1 .. Len(s) -> Nat] /\ Best(ov, BestTurn(snippet, s), Len(s))
<1>1. PICK n \in Nat : n = Len(s) /\ DOMAIN s = 1 .. n
    OBVIOUS
<1>2. ov \in [1 .. n -> Nat]
    <2>1. snippet.start \in Int /\ snippet.end \in Int
        BY DEF Snippet
    <2>2. ASSUME NEW e \in Span PROVE Overlap(snippet, e) \in Nat
        <3>1. e.start \in Int /\ e.end \in Int
            BY SpanFacts
        <3>2. PICK a, b, c, d, w \in Int : /\ a = snippet.start /\ b = snippet.end
                                           /\ c = e.start /\ d = e.end /\ w = Tolerance
            BY <2>1, <3>1, OutlineBounds
        <3>3. PICK from, to \in Int : /\ from = IF a - w > c THEN a - w ELSE c
                                      /\ to = IF b + w < d THEN b + w ELSE d
            <4>1. (IF a - w > c THEN a - w ELSE c) \in Int
                OBVIOUS
            <4>2. (IF b + w < d THEN b + w ELSE d) \in Int
                OBVIOUS
            <4>. QED
                BY <4>1, <4>2
        <3>4. Overlap(snippet, e) = IF to > from THEN to - from ELSE 0
            BY <3>2, <3>3 DEF Overlap
        <3>. QED
            BY <3>4
    <2>3. \A j \in 1 .. n : s[j] \in Span
        BY <1>1
    <2>. QED
        BY <1>1, <2>2, <2>3
<1>3. \A j \in 1 .. n : ov[j] = Overlap(snippet, s[j])
    BY <1>1
<1>4. PICK acc \in [0 .. Len(s) -> 0 .. Len(s)] :
          /\ acc[0] = 0
          /\ \A i \in 1 .. Len(s) :
                acc[i] = IF Overlap(snippet, s[i]) > Reached(acc[i - 1], snippet, s)
                         THEN i ELSE acc[i - 1]
          /\ BestTurn(snippet, s) = acc[Len(s)]
    BY BestTurnSteps
<1> DEFINE P == {i \in 0 .. n : Best(ov, acc[i], i)}
<1>5. 0 \in P
    <2>1. Best(ov, 0, 0)
        BY DEF Best
    <2>. QED
        BY <1>4, <2>1
<1>6. ASSUME NEW i \in 1 .. n, i - 1 \in P PROVE i \in P
    <2>1. PICK k : k = acc[i - 1]
        OBVIOUS
    <2>2. Best(ov, k, i - 1)
        BY <1>6, <2>1
    <2>3. k \in 0 .. i - 1
        BY <2>2 DEF Best
    <2>4. Reached(k, snippet, s) = IF k = 0 THEN 0 ELSE ov[k]
        <3>1. k # 0 => k \in 1 .. n
            BY <2>3
        <3>. QED
            BY <1>3, <3>1 DEF Reached
    <2>5. acc[i] = IF ov[i] > (IF k = 0 THEN 0 ELSE ov[k]) THEN i ELSE k
        BY <1>1, <1>3, <1>4, <2>1, <2>4
    <2>6. Best(ov, acc[i], i)
        BY <1>2, <2>2, <2>5, BestMore
    <2>. QED
        BY <2>6
<1>7. \A i \in 1 .. n : i - 1 \in P => i \in P
    BY <1>6
<1>8. n \in P
    <2>. HIDE DEF P
    <2>1. \A i \in 0 .. n : i \in P
        BY <1>5, <1>7, UpTo
    <2>. QED
        BY <2>1
<1>9. Best(ov, acc[n], n)
    BY <1>8
<1>10. Best(ov, BestTurn(snippet, s), n)
    BY <1>1, <1>4, <1>9
<1>11. Len(s) = n
    BY <1>1
<1>12. ov \in [1 .. Len(s) -> Nat]
    BY <1>2, <1>11
<1>13. Best(ov, BestTurn(snippet, s), Len(s))
    BY <1>10, <1>11
<1>. QED
    BY <1>12, <1>13

LEMMA NextTaskInv ==
    ASSUME TaskInv, [Next]_vars
    PROVE  TaskInv'
<1>1. CASE UNCHANGED vars
    <2>1. Typed' /\ FilesGone' /\ FilesDated'
        BY <1>1 DEF TaskInv, vars, work, Typed, TypeOK, FilesGone, FilesDated
    <2>2. PartsWhole' /\ PartsFit' /\ Stitching' /\ ResultSound' /\ OutlineSound'
        BY <1>1 DEF TaskInv, vars, work, PartsWhole, PartsFit, WithinMargin, SmallParts,
                    Stitching, ResultSound, OutlineSound
    <2>. QED
        BY <2>1, <2>2 DEF TaskInv
<1>2. CASE Next
    BY <1>2, DownloadTaskInv, SplitTaskInv, SplitFailsTaskInv, TranscribePartTaskInv,
       PartFailsTaskInv, LocalTaskInv, CleanTaskInv, KillTaskInv, DeriveTaskInv
       DEF Next, Step
<1>. QED
    BY <1>1, <1>2

(* Every reachable state satisfies the invariant, whatever is killed or refused. *)
THEOREM TaskInvariant == Spec => []TaskInv
<1>. QED
    BY InitTaskInv, NextTaskInv, PTL DEF Spec

(* For every length of the audio and of the parts, the parts a transcript was *)
(* made from follow one another from its first second to its last, whatever  *)
(* split_audio found on the disk.                                           *)
THEOREM NothingLost == Spec => []WholeAudio
<1>1. TaskInv => WholeAudio
    BY DEF TaskInv, ResultSound, WholeAudio
<1>. QED
    BY <1>1, TaskInvariant, PTL

(* The 5% padding of _SEGMENT_PAD makes up for the rounding up to whole seconds *)
(* and for a bitrate that is not uniform, in parts whose density exceeds the *)
(* average Rate by no more than the factor 100 MaxBytes / (95 MaxBytes +     *)
(* 100 Rate); nothing is said of denser ones, which the code does not check. *)
THEOREM PartsFitUpload == Spec => []PartsFit
<1>1. TaskInv => PartsFit
    BY DEF TaskInv
<1>. QED
    BY <1>1, TaskInvariant, PTL

(* The snippets of the parts are stitched without overlap unless an answer told *)
(* a duration below the end of its last segment, and where they were spoken *)
(* if every answer told the duration of its part.                            *)
THEOREM SnippetsStitched == Spec => []Stitched
<1>1. TaskInv => Stitched
    BY DEF TaskInv, ResultSound, Stitched, Apart, InPlace
<1>. QED
    BY <1>1, TaskInvariant, PTL

(* Only a killed task or a failed split can bring audio of an earlier task into *)
(* a transcript.                                                              *)
THEOREM NothingForeign == Spec => []OwnAudio
<1>1. TaskInv => OwnAudio
    BY DEF TaskInv, ResultSound, OwnAudio, AllOf
<1>. QED
    BY <1>1, TaskInvariant, PTL

(* Only they leave files behind, however the others end.                      *)
THEOREM DiskReclaimed == Spec => []Reclaimed
<1>1. TaskInv => Reclaimed
    BY DEF TaskInv, FilesGone, Reclaimed
<1>. QED
    BY <1>1, TaskInvariant, PTL

(* The parts, answers and transcripts keep their types. *)
THEOREM TaskTypes == Spec => []TypeOK
<1>1. TaskInv => TypeOK
    BY DEF TaskInv, Typed
<1>. QED
    BY <1>1, TaskInvariant, PTL

(* The chapters rise strictly, and each of the entries looked at that is sound *)
(* starts no later than one of them: nothing but overlap drops a chapter.     *)
THEOREM ChaptersInOrder == Spec => []ChaptersOrdered
<1>1. TaskInv => ChaptersOrdered
    <2>. SUFFICES ASSUME TaskInv, derived # NoAudio PROVE ChaptersOrdered
        BY DEF ChaptersOrdered
    <2>1. PICK a \in Answers, d \in Int :
              /\ derived.entries = a.entries
              /\ derived.chapters = ParsedChapters(a.entries, d)
        <3>1. result # NoAudio
            BY DEF TaskInv, OutlineSound
        <3>2. result \in Transcribed
            BY <3>1 DEF TaskInv, Typed
        <3>3. result.duration \in Int
            BY <3>2 DEF Transcribed
        <3>4. PICK a \in Answers : \E speaker :
                 derived = [entries |-> a.entries, turns |-> a.turns,
                            chapters |-> ParsedChapters(a.entries, result.duration),
                            speaker |-> speaker]
            BY DEF TaskInv, OutlineSound
        <3>5. /\ derived.entries = a.entries
              /\ derived.chapters = ParsedChapters(a.entries, result.duration)
            BY <3>4
        <3>. QED
            BY <3>3, <3>5
    <2>2. a.entries \in Seq(Span)
        BY AnswersAssumption
    <2>3. PICK e \in Seq(Span), f \in Seq(Span), g \in Seq(Span), c \in Seq(Span) :
              /\ e = a.entries /\ f = FirstOf(e, MaxChapters)
              /\ g = Accepted(f, d) /\ c = Monotonic(g)
        <3>1. PICK e \in Seq(Span) : e = a.entries
            BY <2>2
        <3>2. FirstOf(e, MaxChapters) \in Seq(Span)
            BY OutlineBounds, FirstOfFacts
        <3>3. PICK f \in Seq(Span) : f = FirstOf(e, MaxChapters)
            BY <3>2
        <3>4. PICK g \in Seq(Span) : g = Accepted(f, d)
            BY AcceptedFacts
        <3>5. PICK c \in Seq(Span) : c = Monotonic(g)
            BY MonotonicFacts
        <3>. QED
            BY <3>1, <3>3, <3>4, <3>5
    <2>4. derived.chapters = c /\ derived.entries = e
        BY <2>1, <2>3 DEF ParsedChapters
    <2>5. Rising(c) /\ Reaches(c, g, Len(g)) /\ Holds(g, f, Len(f))
        BY <2>3, MonotonicFacts, AcceptedFacts
    <2>6. ASSUME NEW j \in DOMAIN f, Sound(e[j])
          PROVE  \E i \in DOMAIN c : c[i].start >= e[j].start
        <3>1. f[j] = e[j]
            BY <2>3, OutlineBounds, FirstOfFacts, ZenonT(40)
        <3>1a. j \in 1 .. Len(f)
            OBVIOUS
        <3>2. PICK k \in DOMAIN g : g[k].start = f[j].start
            BY <2>5, <2>6, <3>1, <3>1a DEF Holds
        <3>3. k \in 1 .. Len(g)
            BY <3>2
        <3>4. PICK i \in DOMAIN c : c[i].start >= g[k].start
            BY <2>5, <3>3 DEF Reaches
        <3>. QED
            BY <3>1, <3>2, <3>4
    <2>7. \A i \in 1 .. Len(c) - 1 : c[i].start < c[i + 1].start
        BY <2>5 DEF Rising
    <2>. QED
        BY <2>3, <2>4, <2>6, <2>7 DEF ChaptersOrdered
<1>. QED
    BY <1>1, TaskInvariant, PTL

(* A snippet gets the first turn of those that overlap it most, and none only if *)
(* none comes within the tolerance, whatever diarization answers.             *)
THEOREM SpeakersOverlapMost == Spec => []SpeakersOverlap
<1>1. TaskInv => SpeakersOverlap
    <2>. SUFFICES ASSUME TaskInv, derived # NoAudio PROVE SpeakersOverlap
        BY DEF SpeakersOverlap
    <2>0. PICK snips : snips = result.snippets
        OBVIOUS
    <2>1. PICK a \in Answers :
              /\ derived.turns = a.turns
              /\ derived.speaker = [i \in DOMAIN snips |-> BestTurn(snips[i], a.turns)]
        <3>1. PICK a \in Answers : \E chapters :
                 derived = [entries |-> a.entries, turns |-> a.turns, chapters |-> chapters,
                            speaker |-> [i \in DOMAIN snips |-> BestTurn(snips[i], a.turns)]]
            BY <2>0 DEF TaskInv, OutlineSound
        <3>2. /\ derived.turns = a.turns
              /\ derived.speaker = [i \in DOMAIN snips |-> BestTurn(snips[i], a.turns)]
            BY <3>1
        <3>. QED
            BY <3>2
    <2>2. snips \in Seq(Snippet)
        <3>1. result # NoAudio
            BY DEF TaskInv, OutlineSound
        <3>2. result \in Transcribed
            BY <3>1 DEF TaskInv, Typed
        <3>. QED
            BY <2>0, <3>2 DEF Transcribed
    <2>3. PICK t \in Seq(Span) : t = a.turns
        BY AnswersAssumption
    <2>4. ASSUME NEW i \in DOMAIN snips, NEW s, s = snips[i], NEW k, k = BestTurn(s, t)
          PROVE  IF k = 0 THEN \A j \in DOMAIN t : Overlap(s, t[j]) = 0
                 ELSE /\ Overlap(s, t[k]) > 0
                      /\ \A j \in DOMAIN t : Overlap(s, t[j]) <= Overlap(s, t[k])
                      /\ \A j \in 1 .. k - 1 : Overlap(s, t[j]) < Overlap(s, t[k])
        <3>1. s \in Snippet
            BY <2>2, <2>4
        <3>2. PICK n \in Nat : n = Len(t) /\ DOMAIN t = 1 .. n
            OBVIOUS
        <3>3. PICK ov : ov = [j \in 1 .. Len(t) |-> Overlap(s, t[j])]
            OBVIOUS
        <3>4. Best(ov, k, Len(t))
            BY <2>4, <3>1, <3>3, BestTurnFacts
        <3>5. Best(ov, k, n) /\ \A j \in 1 .. n : ov[j] = Overlap(s, t[j])
            BY <3>2, <3>3, <3>4
        <3>6. k \in 0 .. n /\ (k # 0 => k \in 1 .. n)
            BY <3>5 DEF Best
        <3>7. CASE k = 0
            BY <3>2, <3>5, <3>7 DEF Best
        <3>8. CASE k # 0
            <4>1. /\ ov[k] > 0
                  /\ \A j \in 1 .. n : ov[j] <= ov[k]
                  /\ \A j \in 1 .. k - 1 : ov[j] < ov[k]
                BY <3>5, <3>8 DEF Best
            <4>2. \A j \in 1 .. k - 1 : j \in 1 .. n
                BY <3>6
            <4>. QED
                BY <3>2, <3>5, <3>6, <3>8, <4>1, <4>2
        <3>. QED
            BY <3>7, <3>8
    <2>5. DOMAIN derived.speaker = DOMAIN snips
          /\ \A i \in DOMAIN snips : derived.speaker[i] = BestTurn(snips[i], t)
        BY <2>1, <2>3
    <2>. QED
        BY <2>0, <2>1, <2>3, <2>4, <2>5 DEF SpeakersOverlap
<1>. QED
    BY <1>1, TaskInvariant, PTL

=============================================================================
