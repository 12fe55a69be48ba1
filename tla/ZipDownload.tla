------------------------------ MODULE ZipDownload ------------------------------
(***************************************************************************)
(* Zip downloads (streamZip and the three handlers that call it): a slot   *)
(* is taken or the request turned away, a Telegram client is found, and a  *)
(* goroutine writes one entry after the other into a pipe from which the   *)
(* response is copied to a client that may stop reading.                   *)
(***************************************************************************)
EXTENDS Naturals, Sequences, FiniteSets

CONSTANTS
    Zips,        \* requests
    ZipSlots,    \* files.zip-max-concurrent, 0 for no limit
    ZipMaxFiles, \* files.zip-max-files, 0 for no limit
    ZipFiles,    \* files: [name, empty], an empty one is entered without asking
                 \* Telegram; a name is [base, nums], nums the numbers in
                 \* brackets before the extension ("a (1).txt" has <<1>>)
    MaxEntries   \* bound on the files of a request

ASSUME ZipAssumption ==
    /\ ZipSlots \in Nat /\ ZipMaxFiles \in Nat /\ MaxEntries \in Nat
    /\ \A file \in ZipFiles :
          /\ file.name = [base |-> file.name.base, nums |-> file.name.nums]
          /\ file.name.nums \in Seq(Nat) /\ file.empty \in BOOLEAN

VARIABLES
    zslots,   \* len(zipSlots)
    zip,      \* the requests and their goroutines
    zclient   \* what the other end of the connection does

zipVars == <<zslots, zip, zclient>>

(* A request: pc is where it is, files what collectFilesRecursive found,   *)
(* next the file in turn, used the map usedNames, entries what has been    *)
(* written, and archive whether the central directory is out.              *)
NoZip == [pc |-> "idle", files |-> <<>>, next |-> 1, used |-> <<>>,
          entries |-> <<>>, archive |-> "open"]

ZipInit ==
    /\ zslots = 0
    /\ zip = [z \in Zips |-> NoZip]
    /\ zclient = [z \in Zips |-> "reads"]

ZipCounted == ZipSlots > 0

(* checkZipLimits, the number of files.                                    *)
WithinLimits(files) == ZipMaxFiles = 0 \/ Len(files) <= ZipMaxFiles

(* A request is answered without an archive.                               *)
Refused(z) == zip' = [zip EXCEPT ![z] = [NoZip EXCEPT !.pc = "refused"]]

(* FilesDownloadZip, SharesDownloadZip and SharesDownloadZipDirect up to   *)
(* the slot: nothing found, too much found, or no slot.                    *)
AskZip(z, files) ==
    /\ zip[z].pc = "idle"
    /\ IF files = <<>> \/ ~WithinLimits(files) \/ (ZipCounted /\ zslots = ZipSlots)
       THEN Refused(z) /\ UNCHANGED zslots
       ELSE /\ zip' = [zip EXCEPT ![z].pc = "client", ![z].files = files]
            /\ zslots' = IF ZipCounted THEN zslots + 1 ELSE zslots
    /\ UNCHANGED zclient

ReleaseSlot == zslots' = IF ZipCounted THEN zslots - 1 ELSE zslots

(* Mutant: an early return keeps the slot.                                 *)
TakeClient_Keeps(z, found) ==
    /\ zip[z].pc = "client"
    /\ IF found THEN zip' = [zip EXCEPT ![z].pc = "stream"] ELSE Refused(z)
    /\ UNCHANGED <<zslots, zclient>>

(* The bots, the selector and the client of streamZip: an error gives the  *)
(* slot back, a client hands it to the goroutine.                          *)
TakeClient(z, found) ==
    /\ zip[z].pc = "client"
    /\ IF found
       THEN zip' = [zip EXCEPT ![z].pc = "stream"] /\ UNCHANGED zslots
       ELSE Refused(z) /\ ReleaseSlot
    /\ UNCHANGED zclient

NumberedName(name, n) == [name EXCEPT !.nums = Append(@, n)]

(* Mutant: the number of a name is not counted on.                         *)
Numbered_Once(used, name) ==
    LET seen == name \in DOMAIN used
    IN  [name |-> IF seen THEN NumberedName(name, 1) ELSE name,
         used |-> [x \in DOMAIN used \cup {name} |-> 0]]

(* The name of an entry and the map after it: a name that was seen gets    *)
(* the next number, and the numbered name itself is not entered.           *)
Numbered(used, name) ==
    LET seen == name \in DOMAIN used
        n == IF seen THEN used[name] + 1 ELSE 0
    IN  [name |-> IF seen THEN NumberedName(name, n) ELSE name,
         used |-> [x \in DOMAIN used \cup {name} |-> IF x = name THEN n ELSE used[x]]]

(* The callback of RunWithAuth is over, with an error or without: only     *)
(* without one is the archive closed, which is one more write.             *)
StreamOver(z, failed) ==
    [zip EXCEPT ![z].pc = "over",
                ![z].archive = IF failed \/ zclient[z] = "gone" THEN "broken" ELSE "closed"]

(* One file: its name, its parts and its bytes. Telegram may fail, but for *)
(* an empty file, of which nothing is asked; the writes may fail when the  *)
(* other end of the pipe is gone, or still fit the buffer before it.       *)
WriteEntry(z, failed) ==
    LET file == zip[z].files[zip[z].next]
        named == Numbered(zip[z].used, file.name)
    IN  /\ zip[z].pc = "stream" /\ zip[z].next <= Len(zip[z].files)
        /\ failed => zclient[z] = "gone" \/ (zclient[z] = "reads" /\ ~file.empty)
        /\ zip' = IF failed THEN StreamOver(z, TRUE)
                  ELSE [zip EXCEPT ![z].used = named.used, ![z].next = @ + 1,
                                   ![z].entries = Append(@, named.name)]
        /\ UNCHANGED <<zslots, zclient>>

(* The client cannot authorise, so that the callback never runs.           *)
ClientFails(z) ==
    /\ zip[z].pc = "stream" /\ zip[z].next = 1
    /\ zip' = StreamOver(z, TRUE)
    /\ UNCHANGED <<zslots, zclient>>

(* After the last file.                                                    *)
CloseArchive(z) ==
    /\ zip[z].pc = "stream" /\ zip[z].next = Len(zip[z].files) + 1
    /\ zclient[z] # "stalls"
    /\ zip' = StreamOver(z, FALSE)
    /\ UNCHANGED <<zslots, zclient>>

(* pw.CloseWithError, then the deferred releaseSlot.                       *)
EndStream(z) ==
    /\ zip[z].pc = "over"
    /\ zip' = [zip EXCEPT ![z].pc = "done"]
    /\ ReleaseSlot
    /\ UNCHANGED zclient

(* A client stops reading; the write timeout of the server, or the client, *)
(* ends the connection, and with it the reading end of the pipe is closed. *)
Stall(z) ==
    /\ zip[z].pc = "stream" /\ zclient[z] = "reads"
    /\ zclient' = [zclient EXCEPT ![z] = "stalls"]
    /\ UNCHANGED <<zslots, zip>>

HangUp(z) ==
    /\ zip[z].pc = "stream" /\ zclient[z] = "stalls"
    /\ zclient' = [zclient EXCEPT ![z] = "gone"]
    /\ UNCHANGED <<zslots, zip>>

ZipGoroutine(z) ==
    \/ \E found \in BOOLEAN : TakeClient(z, found)
    \/ \E failed \in BOOLEAN : WriteEntry(z, failed)
    \/ ClientFails(z)
    \/ CloseArchive(z)
    \/ EndStream(z)

ZipNext ==
    \E z \in Zips :
       \/ \E n \in 0 .. MaxEntries : \E files \in [1 .. n -> ZipFiles] : AskZip(z, files)
       \/ ZipGoroutine(z)
       \/ Stall(z)
       \/ HangUp(z)

Blocked(z) == zip[z].pc = "stream" /\ zclient[z] = "stalls"

(* A handler and its goroutine go on when nothing blocks them, for every   *)
(* call to Telegram returns; the write timeout ends a stalled connection.  *)
ZipFairness == \A z \in Zips :
    /\ WF_zipVars(~Blocked(z) /\ ZipGoroutine(z))
    /\ WF_zipVars(HangUp(z))

ZipSpec == ZipInit /\ [][ZipNext]_zipVars /\ ZipFairness

-----------------------------------------------------------------------------
(* An archive that a client can open holds an entry for every file, in     *)
(* order, each under the file's name or under it with a number that counts *)
(* files before it; and two entries have one name only where a file's own  *)
(* name is the numbered name of another (streamZip: "Only finish the       *)
(* archive when every file made it").                                      *)
ArchiveWhole ==
    \A z \in Zips : zip[z].archive = "closed" =>
       LET files == zip[z].files
           entries == zip[z].entries
           Own(i) == entries[i] = files[i].name
       IN  /\ Len(entries) = Len(files)
           /\ \A i \in DOMAIN files :
                 Own(i) \/ \E n \in 1 .. i - 1 : entries[i] = NumberedName(files[i].name, n)
           /\ \A i, j \in DOMAIN files :
                 i < j /\ entries[i] = entries[j] => Own(i) # Own(j)

(* There is room for a zip download again and again, whatever becomes of   *)
(* the Telegram clients, the files and the other ends of the connections.  *)
SlotsReturn == ZipCounted => []<>(zslots < ZipSlots)
=============================================================================
