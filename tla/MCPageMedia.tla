---------------------------- MODULE MCPageMedia ----------------------------
(* Small instances of PageMedia for TLC. *)
EXTENDS PageMedia

CONSTANTS card, pdf, film

Item(v, n) == [view |-> v, onEnd |-> TRUE, dwell |-> n]

Lists   == {<< >>, <<Item(card, 1), Item(pdf, 2)>>, <<Item(film, 1)>>}
MediaOf == [v \in {card, pdf, film} |->
              IF v = card THEN "plain" ELSE IF v = pdf THEN "slides" ELSE "video"]
=============================================================================
