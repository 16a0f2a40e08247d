--------------------------- MODULE FrameCatalogue ---------------------------
(***************************************************************************)
(* What PNGImageReader promises the decoder about its frames while the     *)
(* file is still arriving: the list of frames only grows; only the first   *)
(* frame may be reported before its length is known, no other is reported  *)
(* until it is, and its length is then set once; a later frame lies behind *)
(* the earlier ones in the file; and after the parse has completed or      *)
(* failed the list is final.                                               *)
(***************************************************************************)
EXTENDS Naturals, Sequences

CONSTANTS
  Frame,   \* frames: records with a start_offset and a byte_length
  Open     \* the byte_length of a frame whose length is not known yet

VARIABLES frames, complete, failed

vars == <<frames, complete, failed>>

FirstIsOpen == frames # <<>> /\ frames[1].byte_length = Open

Init ==
  /\ frames = <<>>
  /\ complete = FALSE
  /\ failed = FALSE

(* The frame list has grown by one frame, which is f.                      *)
Grows(f) == f \in Frame /\ frames' = Append(frames, f)

Newest == frames'[Len(frames')]

(* The first frame is reported before its length is known.                 *)
OpenFirst ==
  /\ frames = <<>>
  /\ frames' # <<>>
  /\ Grows(Newest)
  /\ Newest.byte_length = Open

CloseFirst ==
  /\ FirstIsOpen
  /\ frames' # <<>>
  /\ frames' = [frames EXCEPT ![1].byte_length = frames'[1].byte_length]
  /\ frames'[1].byte_length \in Nat \ {Open}

(* A further frame, its length known; it lies behind the others.           *)
Add ==
  /\ frames # <<>>
  /\ ~FirstIsOpen
  /\ frames' # <<>>
  /\ Grows(Newest)
  /\ Newest.byte_length # Open
  /\ LET last == frames[Len(frames)]
     IN Newest.start_offset >= last.start_offset + last.byte_length

(* The parse goes on, or it completes.                                     *)
Report ==
  /\ ~complete /\ ~failed
  /\ OpenFirst \/ CloseFirst \/ Add \/ UNCHANGED frames
  /\ complete' \in BOOLEAN
  /\ UNCHANGED failed

Fail ==
  /\ ~complete /\ ~failed
  /\ failed' = TRUE
  /\ UNCHANGED <<frames, complete>>

Next == Report \/ Fail

Spec == Init /\ [][Next]_vars

=============================================================================
