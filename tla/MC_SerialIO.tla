------------------------------ MODULE MC_SerialIO ------------------------------
(* Queues of three slots, so that an Enter of one character and its       *)
(* "\r\n" fills the input queue and a status message overflows the output *)
(* queue while the output thread lags.  An input window of two lines of   *)
(* one column, so that typing wraps to the second line, then scrolls, and *)
(* backspace walks back across the line boundary.                         *)
EXTENDS SerialIO

MCQueueSize == 3
MCMaxLines == 2
MCMaxCols == 1
MCMessageLengths == {2, 4}
MCMaxId == 6
=============================================================================
