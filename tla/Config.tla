------------------------------- MODULE Config -------------------------------
(***************************************************************************)
(* A setting on its way through a program that is built from the helpers   *)
(* of the library: a process receives records from a device with           *)
(* HyUtilsRead, writes each as text into a JSON file with HyHex2Int2Str    *)
(* and HyUtilsWrite, and another process looks the setting up with the     *)
(* calls of src/src/hy_cjson_file.c, at any moment of a save.              *)
(***************************************************************************)
EXTENDS Convert, Json, FiniteSets

CONSTANTS
  Records,     \* what the device sends, in order: sequences of RecLen octets
  RecLen,      \* length of a record
  FieldNames,  \* the fields the second process asks for
  MaxFds,      \* descriptors it may have open
  MaxBlocks,   \* blocks of memory it may hold
  NULL

ASSUME ConfigAssumption == /\ RecLen \in Nat \ {0}
                           /\ Records \in Seq([1..RecLen -> Octet])
                           /\ MaxFds \in Nat /\ MaxBlocks \in Nat

VARIABLES
  sent,     \* bytes the device has sent
  hung_up,  \* the device is gone
  taken,    \* bytes read from it
  spc,      \* where the saving process is
  rec,      \* its buf in HyUtilsRead
  offset,   \* of the call it is in: len - nleft
  file,     \* the characters in the file
  gpc,      \* where the asking process is
  call,     \* its last call, and what was held when it began
  content,  \* offset, then file_content, then root
  got,      \* what the call returned, and the record it gave
  held,     \* descriptors and blocks of memory the process holds
  seen      \* records that were whole in the file since the call began; NULL
            \* stands for a file that was incomplete

saver == <<sent, hung_up, taken, spc, rec, offset>>
getter == <<gpc, call, content, got, held>>
vars == <<saver, file, getter, seen>>

-----------------------------------------------------------------------------

Open == 12   \* what stands before the setting in the file
Close == 13  \* what stands behind it

(* The room the saving process gives HyHex2Int2Str: that of every digit and *)
(* the terminator.                                                          *)
Text(r) == <<Open>> \o HyHex2Int2Str(r, 3 * RecLen + 1).text \o <<Close>>

(* The byte at a place of what the device sends. *)
Stream(k) == Records[((k - 1) \div RecLen) + 1][((k - 1) % RecLen) + 1]

(* cJSON_Parse of a text that begins with a whole document: here an object *)
(* with the setting in it, once in an object and once in an array.         *)
Item(type, child, value) == [type |-> type, child |-> child, value |-> value]
Named(name, item) == [name |-> name, item |-> item]
cJSON_Parse(text) ==
  IF text # <<>> /\ text[1] = Open /\ \E k \in DOMAIN text : text[k] = Close
  THEN LET end == CHOOSE k \in DOMAIN text :
                    text[k] = Close /\ \A j \in 1..(k - 1) : text[j] # Close
           setting == Item("string", <<>>, SubSeq(text, 2, end - 1))
           version == Item("number", <<>>, <<>>)
       IN  Item("object",
                <<Named("net", Item("object", <<Named("mac", setting)>>, <<>>)),
                  Named("dns", Item("array", <<Named("", version),
                                               Named("", setting)>>, <<>>))>>,
                <<>>)
  ELSE NoItem

Whole(text) == IF /\ text # <<>> /\ Last(text) = Close
                  /\ \E r \in [1..RecLen -> Octet] : text = Text(r)
               THEN {CHOOSE r \in [1..RecLen -> Octet] : text = Text(r)}
               ELSE {NULL}

Seen(f) == seen' = IF gpc = "idle" THEN seen ELSE seen \cup Whole(f)

-----------------------------------------------------------------------------
(* The device *)

DeviceSends ==
  /\ ~hung_up /\ sent < RecLen * Len(Records)
  /\ sent' = sent + 1
  /\ UNCHANGED <<hung_up, taken, spc, rec, offset, file, getter, seen>>

DeviceHangsUp ==
  /\ ~hung_up
  /\ hung_up' = TRUE
  /\ UNCHANGED <<sent, taken, spc, rec, offset, file, getter, seen>>

-----------------------------------------------------------------------------
(* HyUtilsRead(fd, rec, RecLen) *)

(* What read(fd, buf + offset, nleft) leaves in buf when it gets n bytes. *)
Into(n) == [k \in 1..RecLen |->
              IF k - offset \in 1..n THEN Stream(taken + k - offset) ELSE rec[k]]

ReadSome ==
  /\ spc = "read" /\ offset < RecLen
  /\ \E n \in 1..HyUtilsMinMacro(RecLen - offset, sent - taken) :
       /\ rec' = Into(n)
       /\ offset' = offset + n
       /\ taken' = taken + n
  /\ UNCHANGED <<sent, hung_up, spc, file, getter, seen>>

(* A signal, or nothing there on a descriptor that does not block: the     *)
(* loop goes round at once, without a wait.                                *)
ReadAgain == spc = "read" /\ offset < RecLen /\ UNCHANGED vars

(* What the process does with a record it has received: the file is opened *)
(* with O_TRUNC.                                                           *)
Received == /\ spc' = "write" /\ offset' = 0
            /\ file' = <<>> /\ Seen(file')

(* End of file: the call returns the count of what it has.  The process    *)
(* stops at 0, and takes any other for success, as the header says of all  *)
(* but -1.                                                                 *)
ReadEnds ==
  /\ spc = "read" /\ offset < RecLen /\ hung_up /\ taken = sent
  /\ \/ offset > 0 /\ Received
     \/ offset = 0 /\ spc' = "stop" /\ UNCHANGED <<offset, file, seen>>
  /\ UNCHANGED <<sent, hung_up, taken, rec, getter>>

(* -1, whatever had been read before *)
ReadFails ==
  /\ spc = "read" /\ offset < RecLen
  /\ spc' = "stop"
  /\ UNCHANGED <<sent, hung_up, taken, rec, offset, file, getter, seen>>

ReadReturns ==
  /\ spc = "read" /\ offset = RecLen
  /\ Received
  /\ UNCHANGED <<sent, hung_up, taken, rec, getter>>

HyUtilsRead == ReadSome \/ ReadAgain \/ ReadEnds \/ ReadFails \/ ReadReturns

-----------------------------------------------------------------------------
(* HyUtilsWrite(fd, Text(rec), Len(Text(rec))) *)

WriteSome ==
  /\ spc = "write" /\ offset < Len(Text(rec))
  /\ \E n \in 1..(Len(Text(rec)) - offset) :
       /\ file' = file \o SubSeq(Text(rec), offset + 1, offset + n)
       /\ offset' = offset + n
  /\ Seen(file')
  /\ UNCHANGED <<sent, hung_up, taken, spc, rec, getter>>

(* Mutant of WriteInterrupted: ret is left at -1. *)
WriteInterruptedKeepsRet ==
  /\ spc = "write" /\ offset \in 1..(Len(Text(rec)) - 1)
  /\ offset' = offset - 1
  /\ UNCHANGED <<sent, hung_up, taken, spc, rec, file, getter, seen>>

(* EINTR: ret is set to 0 and the loop goes on where it was. *)
WriteInterrupted ==
  spc = "write" /\ offset < Len(Text(rec)) /\ UNCHANGED vars

(* Any other error, EAGAIN among them, and a write of nothing: -1, with    *)
(* what was written before left in the file.                               *)
WriteFails ==
  /\ spc = "write" /\ offset < Len(Text(rec))
  /\ spc' = "failed" /\ offset' = 0
  /\ UNCHANGED <<sent, hung_up, taken, rec, file, getter, seen>>

WriteReturns ==
  /\ spc = "write" /\ offset = Len(Text(rec))
  /\ spc' = "saved" /\ offset' = 0
  /\ UNCHANGED <<sent, hung_up, taken, rec, file, getter, seen>>

HyUtilsWrite == WriteSome \/ WriteInterrupted \/ WriteFails \/ WriteReturns

(* The process turns to the next record. *)
SaveNext ==
  /\ spc \in {"saved", "failed"}
  /\ spc' = "read"
  /\ UNCHANGED <<sent, hung_up, taken, rec, offset, file, getter, seen>>

-----------------------------------------------------------------------------
(* HyJsonFileGetInt, Double and String ("file"), or HyJsonFileGetRoot, a   *)
(* HyJsonGet call on the root and HyJsonFilePutRoot ("root")               *)

Kinds == {"file", "root"}
Types == {"number", "string"}

Holds(fds, blocks) == held' = [fds |-> held.fds + fds, blocks |-> held.blocks + blocks]

Fails == /\ gpc' = "idle" /\ content' = NULL
         /\ got' = [ret |-> -1, val |-> NULL]

Ask ==
  /\ gpc = "idle"
  /\ \E kind \in Kinds, field \in FieldNames, type \in Types :
       call' = [kind |-> kind, field |-> field, type |-> type, held |-> held]
  /\ gpc' = "open" /\ got' = [ret |-> 0, val |-> NULL]
  /\ seen' = Whole(file)
  /\ UNCHANGED <<saver, file, content, held>>

(* access, open and the two lseek of _get_file_content *)
OpenFile ==
  /\ gpc = "open"
  /\ \/ /\ held.fds < MaxFds
        /\ Holds(1, 0)
        /\ gpc' = "content" /\ content' = Len(file)
        /\ UNCHANGED got
     \/ /\ held.fds = MaxFds
        /\ Fails
        /\ UNCHANGED held
  /\ UNCHANGED <<saver, file, call, seen>>

(* Mutant of ReadContent: without close. *)
ReadContentNoClose ==
  /\ gpc = "content" /\ held.blocks < MaxBlocks /\ content <= Len(file)
  /\ Holds(0, 1)
  /\ gpc' = "parse" /\ content' = SubSeq(file, 1, content)
  /\ UNCHANGED <<saver, file, call, got, seen>>

(* calloc, read and close *)
ReadContent ==
  /\ gpc = "content" /\ held.blocks < MaxBlocks /\ content <= Len(file)
  /\ Holds(-1, 1)
  /\ gpc' = "parse" /\ content' = SubSeq(file, 1, content)
  /\ UNCHANGED <<saver, file, call, got, seen>>

(* calloc fails and the descriptor stays open, or the file has become      *)
(* shorter and both the descriptor and the buffer stay.                    *)
ReadContentFails ==
  /\ gpc = "content"
  /\ \/ held.blocks = MaxBlocks /\ UNCHANGED held
     \/ held.blocks < MaxBlocks /\ content > Len(file) /\ Holds(0, 1)
  /\ Fails
  /\ UNCHANGED <<saver, file, call, seen>>

(* cJSON_Parse takes a block, and _put_file_content gives one back. *)
Parse ==
  /\ gpc = "parse" /\ held.blocks < MaxBlocks /\ cJSON_Parse(content) # NoItem
  /\ gpc' = "get" /\ content' = cJSON_Parse(content)
  /\ UNCHANGED <<saver, file, call, got, held, seen>>

(* An incomplete text, or no memory: file_content is not put. *)
ParseFails ==
  /\ gpc = "parse" /\ (held.blocks = MaxBlocks \/ cJSON_Parse(content) = NoItem)
  /\ Fails
  /\ UNCHANGED <<saver, file, call, held, seen>>

(* The value of the item, and HyJsonFilePutRoot. *)
GetItem ==
  /\ gpc = "get" /\ Gets(content, call.field, call.type)
  /\ gpc' = "idle" /\ content' = NULL
  /\ got' = [ret |-> 0,
             val |-> IF call.type = "string"
                     THEN HyStr2Int2Hex(_get_item(content, call.field).value, RecLen)
                     ELSE NULL]
  /\ Holds(0, -1)
  /\ UNCHANGED <<saver, file, call, seen>>

(* No such item, or one of another type: _file_get_com returns without     *)
(* HyJsonFilePutRoot, the caller with a root of its own still puts it.     *)
GetItemFails ==
  /\ gpc = "get" /\ ~Gets(content, call.field, call.type)
  /\ Fails
  /\ Holds(0, IF call.kind = "root" THEN -1 ELSE 0)
  /\ UNCHANGED <<saver, file, call, seen>>

HyJsonFile == \/ Ask \/ OpenFile \/ ReadContent \/ ReadContentFails
              \/ Parse \/ ParseFails \/ GetItem \/ GetItemFails

-----------------------------------------------------------------------------

Init ==
  /\ sent = 0 /\ hung_up = FALSE /\ taken = 0
  /\ spc = "read" /\ rec = [k \in 1..RecLen |-> 0] /\ offset = 0
  /\ file = <<>>
  /\ gpc = "idle" /\ call = NULL /\ content = NULL
  /\ got = [ret |-> -1, val |-> NULL]
  /\ held = [fds |-> 0, blocks |-> 0]
  /\ seen = {}

Next == \/ DeviceSends \/ DeviceHangsUp
        \/ HyUtilsRead \/ HyUtilsWrite \/ SaveNext
        \/ HyJsonFile

Spec == Init /\ [][Next]_vars

-----------------------------------------------------------------------------

(***************************************************************************)
(* The conversions of src/src/hy_utils.c, HyStrCopyRight and the rounding  *)
(* of a fifo's size do what their callers rely on, each up to the size of  *)
(* buffer it needs.  Stated of the state in which nothing has run.         *)
(***************************************************************************)
ConversionsSound ==
  sent = 0 /\ ~hung_up /\ call = NULL /\ spc = "read"
    => /\ LeastPowerOf2 /\ IpRoundTrip /\ HexRoundTrip
       /\ BitRoundTrip /\ CopyRightIsLastPart

(* The bytes of the next record that the device has still sent, and behind *)
(* them what the buffer held before.                                       *)
CutOff ==
  LET n == taken \div RecLen
  IN  [k \in 1..RecLen |-> IF k <= taken % RecLen THEN Records[n + 1][k]
                           ELSE IF n = 0 THEN 0 ELSE Records[n][k]]

(***************************************************************************)
(* However the device, the descriptors and the signals cut the transfers   *)
(* to pieces: the records come out of HyUtilsRead whole and in order as    *)
(* long as the device is there.  Once it is gone the call still succeeds,  *)
(* where src/include/hy_utils.h:108 promises len or -1, and a caller that  *)
(* relies on that saves the beginning of a record before the rest of an    *)
(* old one.  A HyUtilsWrite that has not failed has the whole text in the  *)
(* file, and what a reader of the file is given was whole in it during the *)
(* call: never a mixture of two saves, and never an old one.               *)
(***************************************************************************)
EndToEnd ==
  /\ spc \in {"write", "saved", "failed"} =>
       /\ taken > 0 /\ (~hung_up => taken % RecLen = 0)
       /\ rec = IF taken % RecLen = 0 THEN Records[taken \div RecLen]
                ELSE CutOff
  /\ spc = "saved" => file = Text(rec)
  /\ gpc = "idle" /\ got.val # NULL => got.val \in seen

(***************************************************************************)
(* A call of hy_cjson_file.c fails only when the file was incomplete while *)
(* it ran, the field is not there, or descriptors or memory are used up.   *)
(* One that succeeds leaves nothing behind; one that fails at most one     *)
(* descriptor and one block: the descriptor only when the file was cut     *)
(* under it or there was no memory, and a caller that puts its root itself *)
(* loses nothing for a field that is missing.                              *)
(***************************************************************************)
FailsForCause ==
  gpc = "idle" /\ call # NULL =>
    LET incomplete == NULL \in seen
        missing    == \E r \in seen \ {NULL} :
                        ~Gets(cJSON_Parse(Text(r)), call.field, call.type)
        used_up    == held.fds = MaxFds \/ held.blocks = MaxBlocks
        fds        == held.fds - call.held.fds
        blocks     == held.blocks - call.held.blocks
    IN  /\ got.ret = 0 => fds = 0 /\ blocks = 0
        /\ got.ret # 0 => incomplete \/ missing \/ used_up
        /\ fds \in 0..1 /\ blocks \in 0..1
        /\ fds = 1 => incomplete \/ held.blocks = MaxBlocks
        /\ blocks = 1 /\ ~incomplete /\ held.blocks < MaxBlocks
             => missing /\ call.kind = "file"
=============================================================================
