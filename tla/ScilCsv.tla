------------------------------- MODULE ScilCsv ------------------------------
(***************************************************************************)
(* The CSV plugin of the tools, src/src/tools/plugins/file-csv.c.  It      *)
(* writes an array line by line, with a header of its shape unless that is *)
(* to be ignored, and reads any file in two passes: the first takes the    *)
(* shape from the header or by counting, the second stores the values.     *)
(*                                                                         *)
(* A value is the position of the array it comes from; that the printed    *)
(* digits hold it is taken for granted.  A line is the sequence of its     *)
(* tokens, <<>> a line of comment, and an empty line has the one token     *)
(* Blank, which sscanf cannot read.                                        *)
(***************************************************************************)
EXTENDS Naturals, Integers, Sequences, SequencesExt

CONSTANTS
    Shapes,         \* sequences of one to four lengths, of arrays to write
    Files           \* files written by others

NoHeader == <<>>
Comment  == <<-1>>          \* a first line that only begins like a header
Blank    == -1
NoShape  == <<>>

CsvAssumption ==
    /\ \A s \in Shapes : s \in Seq(Nat \ {0}) /\ Len(s) \in 1 .. 4
    /\ \A f \in Files : f.rows \in Seq(Seq(Int))

VARIABLES
    phase,          \* "idle", "count", "store", "done", "failed"
    ignoreHeader,   \* ignore_header
    file,           \* head: NoHeader, Comment or four lengths; rows
    written,        \* shape of the array in the file, NoShape for others' files
    line,           \* lines read in this pass; 0: the first line is next
    x, y, refX,     \* as in readData
    foundHeader,
    shape,          \* out_dims
    dbl,            \* dbl: the number last read
    stored          \* the values in input_data

vars == <<phase, ignoreHeader, file, written, line, x, y, refX, foundHeader,
          shape, dbl, stored>>

-----------------------------------------------------------------------------
(* writeData *)

Length(s, i) == IF i <= Len(s) THEN s[i] ELSE 1

Padded(s) == [i \in 1 .. 4 |-> IF i <= Len(s) THEN s[i] ELSE 0]

(* Position of the first value of a line: the strides of z and w are those *)
(* in the code.                                                            *)
LineStart(s, yy, zz, ww) ==
    yy * Length(s, 1) + (IF Len(s) > 2 THEN zz * Length(s, 2) ELSE 0)
                      + (IF Len(s) > 3 THEN ww * Length(s, 3) ELSE 0)

LineOf(s, r) ==
    LET rows == Length(s, 2)
        planes == Length(s, 3)
        start == LineStart(s, r % rows, (r \div rows) % planes, r \div (rows * planes))
    IN [i \in 1 .. s[1] |-> start + i - 1]

Lines(s) ==
    [r \in 1 .. Length(s, 2) * Length(s, 3) * Length(s, 4) |-> LineOf(s, r - 1)]

WriteData(s) ==
    /\ file' = [head |-> IF ignoreHeader THEN NoHeader ELSE Padded(s), rows |-> Lines(s)]
    /\ written' = s
    /\ phase' = "count"
    /\ UNCHANGED <<ignoreHeader, line, x, y, refX, foundHeader, shape, dbl, stored>>

FromElsewhere(f) ==
    /\ file' = f
    /\ written' = NoShape
    /\ phase' = "count"
    /\ UNCHANGED <<ignoreHeader, line, x, y, refX, foundHeader, shape, dbl, stored>>

-----------------------------------------------------------------------------
(* readData: the first pass *)

(* scilPr_initialize_dims_4d: lengths of zero are dropped from the end. *)
Dims4d(l) ==
    CASE l[4] > 0 -> l
      [] l[4] = 0 /\ l[3] > 0 -> SubSeq(l, 1, 3)
      [] l[4] = 0 /\ l[3] = 0 /\ l[2] > 0 -> SubSeq(l, 1, 2)
      [] l[4] = 0 /\ l[3] = 0 /\ l[2] = 0 -> SubSeq(l, 1, 1)

(* The first line is compared with the pattern of a header if it is a      *)
(* comment; a header ends the pass.                                        *)
FirstLine ==
    /\ phase = "count"
    /\ line = 0
    /\ line' = 1
    /\ IF file.head \in {NoHeader, Comment} \/ ignoreHeader
         THEN UNCHANGED <<phase, shape, foundHeader>>
         ELSE /\ shape' = Dims4d(file.head)
              /\ foundHeader' = TRUE
              /\ phase' = "store"
    /\ UNCHANGED <<ignoreHeader, file, written, x, y, refX, dbl, stored>>

(* The number a pass leaves in dbl. *)
LastNumber(old, tokens) ==
    LET numbers == {k \in DOMAIN tokens : tokens[k] # Blank}
    IN IF numbers = {} THEN old
       ELSE tokens[CHOOSE k \in numbers : \A j \in numbers : j <= k]

Varies(n) == refX # -1 /\ n # refX /\ n > 1

(* Mutant: lines of any number of columns are accepted. *)
CountLineAny ==
    /\ phase = "count"
    /\ line \in 1 .. Len(file.rows)
    /\ LET tokens == file.rows[line]
           n == Len(tokens)
       IN IF tokens = <<>> THEN UNCHANGED <<x, y, refX, dbl, phase>>
          ELSE /\ x' = n
               /\ dbl' = LastNumber(dbl, tokens)
               /\ refX' = n /\ y' = (IF n > 1 THEN y + 1 ELSE y) /\ UNCHANGED phase
    /\ line' = line + 1
    /\ UNCHANGED <<ignoreHeader, file, written, foundHeader, shape, stored>>

CountLine ==
    /\ phase = "count"
    /\ line \in 1 .. Len(file.rows)
    /\ LET tokens == file.rows[line]
           n == Len(tokens)
       IN IF tokens = <<>> THEN UNCHANGED <<x, y, refX, dbl, phase>>
          ELSE /\ x' = n
               /\ dbl' = LastNumber(dbl, tokens)
               /\ IF Varies(n) THEN phase' = "failed" /\ UNCHANGED <<refX, y>>
                  ELSE /\ refX' = n
                       /\ y' = IF n > 1 THEN y + 1 ELSE y
                       /\ UNCHANGED phase
    /\ line' = line + 1
    /\ UNCHANGED <<ignoreHeader, file, written, foundHeader, shape, stored>>

(* The shape of data without a header *)
Counted(columns, rows) == IF rows > 1 THEN <<columns, rows>> ELSE <<columns>>

EndOfCount ==
    /\ phase = "count"
    /\ line = Len(file.rows) + 1
    /\ shape' = Counted(x, y)
    /\ line' = 1
    /\ phase' = "store"
    /\ UNCHANGED <<ignoreHeader, file, written, x, y, refX, foundHeader, dbl, stored>>

-----------------------------------------------------------------------------
(* readData: the second pass *)

(* What the tokens of a line store: a blank stores the number before it    *)
(* again.                                                                  *)
Numbers(old, tokens) ==
    [i \in 1 .. Len(tokens) |-> LastNumber(old, SubSeq(tokens, 1, i))]

StoreLine ==
    /\ phase = "store"
    /\ line \in 1 .. Len(file.rows)
    /\ stored' = stored \o Numbers(dbl, file.rows[line])
    /\ dbl' = LastNumber(dbl, file.rows[line])
    /\ x' = IF file.rows[line] = <<>> THEN x ELSE 0
    /\ line' = line + 1
    /\ UNCHANGED <<phase, ignoreHeader, file, written, y, refX, foundHeader, shape>>

EndOfStore ==
    /\ phase = "store"
    /\ line = Len(file.rows) + 1
    /\ phase' = "done"
    /\ UNCHANGED <<ignoreHeader, file, written, line, x, y, refX, foundHeader,
                   shape, dbl, stored>>

-----------------------------------------------------------------------------
Nothing ==
    [head |-> NoHeader, rows |-> <<>>]

(* The variables of a call end with it. *)
NextCall ==
    /\ phase \in {"done", "failed"}
    /\ phase' = "idle" /\ file' = Nothing /\ written' = NoShape
    /\ line' = 0 /\ x' = 0 /\ y' = 0 /\ refX' = -1
    /\ foundHeader' = FALSE /\ shape' = NoShape /\ dbl' = 0 /\ stored' = <<>>
    /\ UNCHANGED ignoreHeader

Init ==
    /\ phase = "idle" /\ file = Nothing /\ written = NoShape
    /\ ignoreHeader \in BOOLEAN
    /\ line = 0 /\ x = 0 /\ y = 0 /\ refX = -1
    /\ foundHeader = FALSE /\ shape = NoShape /\ dbl = 0 /\ stored = <<>>

Next ==
    \/ phase = "idle" /\ \E s \in Shapes : WriteData(s)
    \/ phase = "idle" /\ \E f \in Files : FromElsewhere(f)
    \/ FirstLine \/ CountLine \/ EndOfCount
    \/ StoreLine \/ EndOfStore
    \/ NextCall

Spec == Init /\ [][Next]_vars

-----------------------------------------------------------------------------
(* Properties *)

Count(s) == Length(s, 1) * Length(s, 2) * Length(s, 3) * Length(s, 4)

Restored == shape = written /\ stored = [i \in 1 .. Count(written) |-> i - 1]

(* An array of one or two dimensions that was written is read as it was,   *)
(* without a header as far as counting can tell: more than one column and  *)
(* row, or only one row.                                                   *)
Tellable(s) == ~ignoreHeader \/ Len(s) = 1 \/ (s[1] > 1 /\ s[2] > 1)

WrittenIsRead ==
    phase \in {"done", "failed"} /\ Len(written) \in {1, 2} /\ Tellable(written) =>
        phase = "done" /\ Restored

(* The two passes agree: without a header and without a line of one token, *)
(* the counted shape has room for every value that is stored, and no more. *)
PassesAgree ==
    phase = "done" /\ ~foundHeader /\ (\A i \in DOMAIN file.rows : Len(file.rows[i]) # 1) =>
        Count(shape) = Len(stored)

(* The reader gives back what the writer wrote, and of files of others     *)
(* both passes the same.                                                   *)
ReadAsWritten == WrittenIsRead /\ PassesAgree
=============================================================================
