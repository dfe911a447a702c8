----------------------- MODULE MC_TranscriptService -----------------------
(* Small instances of TranscriptService for TLC: r1 forces Whisper and      *)
(* waits, r2 refreshes, r3 asks for what is there.                          *)
EXTENDS TranscriptService

CONSTANTS r1, r2, r3, en, fr

MixedForce == [r \in Req |-> CASE r = r1 -> "whisper"
                               [] r = r2 -> "refresh"
                               [] OTHER  -> "none"]
AllEnglish == [r \in Req |-> en]
Foreign    == [r \in Req |-> IF r = r1 THEN en ELSE fr]
AllFrench  == [r \in Req |-> fr]
Nothing    == [r \in Req |-> {}]
Speakers   == [r \in Req |-> {"speakers"}]
Chaptered  == [r \in Req |-> {"chapters"}]
Everything == [r \in Req |-> {"chapters", "speakers"}]
=============================================================================
