------------------------------ MODULE ScilTool ------------------------------
(***************************************************************************)
(* The tool scil-compress (src/src/tools/scil-compress.c) with its file    *)
(* plugins bin and netcdf, and csv as ScilCsv has it, run several times    *)
(* over files that it wrote itself or that it is given.                    *)
(*                                                                         *)
(* Data is the sequence of what was done to the array of the first file:   *)
(* "packed" is appended by a compression and taken off by the              *)
(* decompression of just these bytes; "residual" marks a difference.       *)
(* Accuracy is abstracted, lengths are in bytes.                           *)
(***************************************************************************)
EXTENDS Naturals, Integers, Sequences, SequencesExt

CONSTANTS
    ArraySize,      \* bytes of an array
    PackedSizes,    \* lengths a compression may have
    Options,        \* command lines
    Given,          \* files that are there before, each what it is meant to be
    Runs            \* bound: runs of the tool

Deeds == {"packed", "residual", "garbage", "empty"}

ToolAssumption ==
    /\ ArraySize \in Nat \ {0} /\ Runs \in Nat /\ PackedSizes \subseteq Nat \ {0}
    /\ \A o \in Options : o.inFormat \in {"csv", "bin", "nc"}
    /\ Given \in Seq([format : {"csv", "bin", "nc"}, data : Seq(Deeds), size : Int, len : Nat,
                      array : {0, ArraySize}, meant : Seq(Deeds)])
    /\ \A n \in DOMAIN Given : Given[n].data = Given[n].meant

Unset   == -1                   \* a variable nobody assigned
Array   == <<>>
Garbage == <<"garbage">>
Empty   == <<"empty">>          \* the compression of an array without elements
Nothing == [data |-> Garbage, len |-> 0]

(* scilPr_get_compressed_data_size_limit *)
Limit(n) == 4 * n + 1024

VARIABLES
    files,      \* the files, in the order in which they were written
    phase,      \* "idle", "read", "context", "process", "write"
    opt,        \* the options of this run
    input,      \* input_data
    readSize,   \* read_data_size
    array,      \* array_size, of dims and input_datatype
    output,     \* output_data and its length
    binary,     \* output_datatype = SCIL_TYPE_BINARY
    buffSize,   \* buff_size
    tmpSize,    \* size of tmp_buff, Unset without one
    exit        \* status of the last run, Unset before, 134 after an assertion

vars == <<files, phase, opt, input, readSize, array, output, binary, buffSize, tmpSize, exit>>

locals == <<input, readSize, array, output, binary, buffSize, tmpSize>>

-----------------------------------------------------------------------------
(* The variables of a run end with it, and begin with zero when static. *)
NoOption == CHOOSE o \in Options : TRUE

Start(o) ==
    /\ Len(files) < Len(Given) + Runs
    /\ o.in \in DOMAIN files
    /\ opt' = o
    /\ phase' = "read"
    /\ exit' = Unset
    /\ UNCHANGED <<files, locals>>

File == files[opt.in]

Exit(status) ==
    /\ exit' = status
    /\ phase' = "idle"
    /\ opt' = NoOption
    /\ input' = Nothing /\ readSize' = Unset /\ array' = 0
    /\ output' = Nothing /\ binary' = FALSE /\ buffSize' = Unset /\ tmpSize' = Unset

Read(d, size, n) ==
    /\ input' = d
    /\ readSize' = size
    /\ array' = n
    /\ phase' = "context"
    /\ UNCHANGED <<files, opt, output, binary, buffSize, tmpSize, exit>>

ReadFails == Exit(1) /\ UNCHANGED files

(* file-bin.c: what is stored as the size is the size that was read, the   *)
(* data is what is left of the file.                                       *)
ReadBin ==
    /\ phase = "read" /\ opt.inFormat = "bin" /\ File.format = "bin"
    /\ IF File.len > 0
         THEN Read([data |-> File.data, len |-> File.len], File.size, File.array)
         ELSE ReadFails

(* file-csv.c: no size is given. *)
ReadCsv ==
    /\ phase = "read" /\ opt.inFormat = "csv" /\ File.format = "csv"
    /\ Read([data |-> File.data, len |-> Limit(File.array)], Unset, File.array)

(* file-netcdf.c: without a variable of the name, nothing is assigned, and *)
(* the size is that of the dimensions the caller had.                      *)
ReadNetcdf ==
    /\ phase = "read" /\ opt.inFormat = "nc" /\ File.format = "nc"
    /\ IF File.len > 0 /\ opt.named
         THEN Read([data |-> File.data, len |-> Limit(File.array)], File.array, File.array)
         ELSE Read(Nothing, 0, 0)

OpenFails == phase = "read" /\ ReadFails

(* A file of another format is misunderstood, if it is not refused. *)
ReadOther ==
    /\ phase = "read" /\ File.format # opt.inFormat
    /\ opt.inFormat # "nc"
    /\ Read([data |-> Garbage, len |-> ArraySize], ArraySize, ArraySize)

-----------------------------------------------------------------------------
(* The hints may contradict each other or be refused by scilPr_create_context. *)
CreateContext ==
    /\ phase = "context"
    /\ phase' = "process"
    /\ output' = [data |-> Garbage, len |-> Limit(array)]
    /\ UNCHANGED <<files, opt, input, readSize, array, binary, buffSize, tmpSize, exit>>

ContextFails ==
    /\ phase = "context"
    /\ \E status \in {1, 134} : Exit(status)
    /\ UNCHANGED files

(* scil_compress reads all of the array that dims promise. *)
Compressed(d, n) ==
    IF n = 0 THEN {[data |-> Empty, len |-> 1]}
    ELSE {[data |-> IF d.len >= n THEN Append(d.data, "packed") ELSE Garbage, len |-> l] :
             l \in PackedSizes}

(* scil_decompress of the bytes of a compression and its size *)
Understood(p, size, n) ==
    /\ p.data # <<>>
    /\ Last(p.data) = "packed"
    /\ size = p.len
    /\ n = ArraySize

Decompressed(p, n) == [data |-> Front(p.data), len |-> n]

WithoutMode == ~opt.compress /\ ~opt.decompress

(* A failed compression or decompression is an assertion. *)
Aborts ==
    /\ phase = "process"
    /\ Exit(134)
    /\ UNCHANGED files

Cycle ==
    /\ phase = "process"
    /\ opt.cycle \/ WithoutMode
    /\ \E result \in Compressed(input, array) :
          /\ buffSize' = result.len
          /\ output' = IF result.data \in {Garbage, Empty} THEN [data |-> Garbage, len |-> array]
                       ELSE Decompressed(result, array)
    /\ tmpSize' = array
    /\ binary' = FALSE
    /\ phase' = "write"
    /\ UNCHANGED <<files, opt, input, readSize, array, exit>>

Compress ==
    /\ phase = "process"
    /\ ~opt.cycle /\ opt.compress
    /\ output' \in Compressed(input, array)
    /\ buffSize' = output'.len
    /\ binary' = TRUE
    /\ phase' = "write"
    /\ UNCHANGED <<files, opt, input, readSize, array, tmpSize, exit>>

Uncompress ==
    /\ phase = "process"
    /\ ~opt.cycle /\ ~opt.compress /\ opt.decompress
    /\ output' = IF Understood(input, readSize, array) THEN Decompressed(input, array)
                 ELSE [data |-> Garbage, len |-> array]
    /\ tmpSize' = Limit(array)
    /\ binary' = FALSE
    /\ phase' = "write"
    /\ UNCHANGED <<files, opt, input, readSize, array, buffSize, exit>>

-----------------------------------------------------------------------------
(* scilU_subtract_data takes both for arrays. *)
Residual(d) ==
    IF Last(<<"">> \o d.data) \in {"packed", "garbage"} THEN Garbage
    ELSE Append(d.data, "residual")

Written ==
    IF opt.residual /\ (opt.decompress \/ opt.cycle)
      THEN [output EXCEPT !.data = Residual(input)]
      ELSE output

(* Mutant: the size of the array whatever is stored. *)
BinSizeOfArray == array

(* buffer_in_size of file-bin.c *)
BinSize == IF binary THEN buffSize ELSE array

(* meant is history: what the run had to store. *)
NewFile(format, d, size, len) ==
    files' = Append(files, [format |-> format, data |-> d, size |-> size,
                            len |-> len, array |-> array, meant |-> Written.data])

(* fwrite may store less than it is asked to, and only nothing is an       *)
(* error; bytes too many are taken for the end of the compressed ones.     *)
WriteBin ==
    /\ opt.outFormat = "bin"
    /\ \/ /\ \E len \in {1, BinSize} :
                NewFile("bin", IF len = output.len THEN Written.data ELSE Garbage, BinSize, len)
          /\ Exit(0)
       \/ NewFile("bin", Garbage, BinSize, 0) /\ Exit(1)

(* Values of a binary buffer are not supported: none is printed. *)
WriteCsv ==
    /\ opt.outFormat = "csv"
    /\ NewFile("csv", IF binary THEN Garbage ELSE Written.data, Unset,
               IF binary THEN 0 ELSE array)
    /\ Exit(0)

(* What nc_def_var or nc_put_var answer is not looked at. *)
WriteNetcdf ==
    /\ opt.outFormat = "nc"
    /\ IF binary THEN Exit(1) /\ UNCHANGED files
       ELSE \/ /\ opt.named
               /\ NewFile("nc", Written.data, Unset, array)
               /\ Exit(0)
            \/ NewFile("nc", Garbage, Unset, 0) /\ Exit(0)
            \/ Exit(1) /\ UNCHANGED files

Write ==
    /\ phase = "write"
    /\ ~opt.noWrite
    /\ WriteBin \/ WriteCsv \/ WriteNetcdf

NoWrite ==
    /\ phase = "write"
    /\ opt.noWrite
    /\ Exit(0)
    /\ UNCHANGED files

Init ==
    /\ files = Given
    /\ phase = "idle"
    /\ opt = NoOption
    /\ input = Nothing /\ readSize = Unset /\ array = 0
    /\ output = Nothing /\ binary = FALSE /\ buffSize = Unset /\ tmpSize = Unset
    /\ exit = Unset

Next ==
    \/ phase = "idle" /\ \E o \in Options : Start(o)
    \/ ReadBin \/ ReadCsv \/ ReadNetcdf \/ ReadOther \/ OpenFails
    \/ CreateContext \/ ContextFails
    \/ Cycle \/ Compress \/ Uncompress \/ Aborts
    \/ Write \/ NoWrite

Spec == Init /\ [][Next]_vars

-----------------------------------------------------------------------------
(* Properties *)

Writes == phase = "write" /\ phase' = "idle" /\ Len(files') > Len(files)
New    == Last(files')

IsArray(f)  == f.meant = Array /\ f.array = ArraySize /\ f.len = ArraySize
IsPacked(f) == f.meant # <<>> /\ Last(f.meant) = "packed" /\ f.format = "bin" /\ f.len = f.size

(* Whatever earlier runs made of the files: decompressing a file that a    *)
(* run compressed gives the array that was compressed, compressing and     *)
(* decompressing at once the input, provided the output is stored.         *)
RoundTrip ==
    [][ Writes /\ File.format = opt.inFormat /\ ~opt.residual
        /\ New.len > 1 /\ ~binary =>
            /\ IsPacked(File) /\ opt.decompress /\ ~opt.cycle =>
                  New.data = Front(File.meant)
            /\ IsArray(File) /\ (opt.cycle \/ WithoutMode) => New.data = File.meant ]_vars
=============================================================================
