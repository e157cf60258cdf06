----------------------------- MODULE Dictionary ----------------------------
(* What both socket dictionaries of SP_HW11 are about.                     *)
CONSTANTS
  Clients,  \* client processes
  Words,    \* words a user may ask for
  Dict      \* the dictionary file: Dict[w] is the text of a word, or what the
            \* server puts there when it has none
=============================================================================
