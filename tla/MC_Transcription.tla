-------------------------- MODULE MC_Transcription --------------------------
(* A small instance of Transcription for TLC. *)
EXTENDS Transcription

(* 100 seconds fit a part: 90 are sent whole, 200 make two shares and three
   segments (95, 95, 10), 250 three and four (80, 80, 80, 10).  A stream copy has
   parts of the average density, of 4% more, which the margin allows, or of 20%
   more; encoded parts are denser still. *)
Interval(a, b) == [start |-> a, end |-> b]
Answer(entries, turns) == [entries |-> entries, turns |-> turns]
Said == {Answer(<<Interval(0, 45), Interval(100, 450)>>, <<>>),
         Answer(<<Interval(45, 100), Interval(45, 150)>>,
                <<Interval(0, 40), Interval(40, 300)>>),
         Answer(<<Interval(150, 200), Interval(25, 20), Interval(100, 150), Interval(205, 225)>>,
                <<Interval(0, 40), Interval(150, 300), Interval(45, 155)>>)}
=============================================================================
