--------------------------- MODULE TranscriptTable ---------------------------
(***************************************************************************)
(* app/cache.py: the operations on the transcripts rows of one video, one  *)
(* row per language.  A text is named by the request or job that produced  *)
(* it; a row keeps the full text and the snippets in separate columns, and *)
(* snippets keep the name of the text they were cut from.                  *)
(***************************************************************************)
CONSTANTS
    Lang,       \* languages
    Author,     \* producers of texts
    NoRow       \* absence of a row

Source   == {"captions", "whisper"}
Chapters == {"null", "empty", "found"}

Row == [source   : Source,
        text     : Author,      \* full_text
        snippets : Author,      \* snippets_jsonb
        tagged   : BOOLEAN,     \* the snippets went through diarization
        flag     : BOOLEAN,     \* has_diarization
        chapters : Chapters,    \* SQL NULL, [] or a list
        fresh    : BOOLEAN]     \* expires_at > now()

ASSUME NoRowAssumption == NoRow \notin Row

Table == [Lang -> Row \union {NoRow}]

Got(t, l) == IF t[l] # NoRow /\ t[l].fresh THEN t[l] ELSE NoRow

(* Mutant: has_diarization survives the replacement of the snippets. *)
PutKeepingFlag(t, l, a, s) ==
    [t EXCEPT ![l] =
        [source |-> s, text |-> a, snippets |-> a, tagged |-> FALSE,
         flag |-> IF t[l] = NoRow THEN FALSE ELSE t[l].flag,
         chapters |-> IF t[l] = NoRow THEN "null" ELSE t[l].chapters,
         fresh |-> TRUE]]

(* Mutant: the upsert refreshes chapters_jsonb with the record's None. *)
PutClearingChapters(t, l, a, s) ==
    [t EXCEPT ![l] =
        [source |-> s, text |-> a, snippets |-> a, tagged |-> FALSE,
         flag |-> FALSE, chapters |-> "null", fresh |-> TRUE]]

(* put_transcript of a record without chapters, as all its callers have. *)
Put(t, l, a, s) ==
    [t EXCEPT ![l] =
        [source |-> s, text |-> a, snippets |-> a, tagged |-> FALSE,
         flag |-> FALSE,
         chapters |-> IF t[l] = NoRow THEN "null" ELSE t[l].chapters,
         fresh |-> TRUE]]

(* An UPDATE, without regard to expires_at: nothing happens without a row. *)
PutChapters(t, l, c) ==
    IF t[l] = NoRow THEN t ELSE [t EXCEPT ![l].chapters = c]

(* Mutant: an upsert instead of an UPDATE. *)
PutDiarizationUpserting(t, l, rec) ==
    [t EXCEPT ![l] = [rec EXCEPT !.tagged = TRUE, !.flag = TRUE]]

(* put_diarization with the tagged snippets of the record loaded earlier. *)
PutDiarization(t, l, rec) ==
    IF t[l] = NoRow THEN t
    ELSE [t EXCEPT ![l].snippets = rec.snippets,
                   ![l].tagged = TRUE, ![l].flag = TRUE]

Purged(t) == [l \in Lang |-> NoRow]

(* The cache TTL of a row runs out. *)
Aged(t, l) == [t EXCEPT ![l].fresh = FALSE]
=============================================================================
