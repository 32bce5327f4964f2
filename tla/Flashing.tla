------------------------------ MODULE Flashing ------------------------------
(***************************************************************************)
(* How an application gets onto the board and is started: the host's       *)
(* flash tool (scripts/flashtool.py), a state machine that drives the      *)
(* board through the ROM's serial downloader, the flash loader and the     *)
(* elf_loader, and the elf_loader itself (apps/elf_loader), which receives *)
(* files over USB HID and boots /default.elf when nobody talks to it for a *)
(* second.                                                                 *)
(*                                                                         *)
(* The user may pull the plug and may stop the tool, and a call of         *)
(* littlefs may fail, all together at most MaxDisturbances times.  A file  *)
(* is none, empty (created but not yet closed), partial, old or new: new   *)
(* is what the current run of the tool flashes, old what an earlier one    *)
(* did.  Images are Packets reports long and paths one.  read_byte waits   *)
(* at most a second for the board's answer and goes on without it, so that *)
(* it orders nothing and is left out.  A board in a known mode appears on  *)
(* the bus well within the tool's ten tries, a second apart: it gives up   *)
(* only on a board that will not come up as awaited.                       *)
(*                                                                         *)
(* The elf_loader ignores the results of the calls of littlefs that it     *)
(* makes for a report, and answers the report all the same.  (Mounting at  *)
(* the start and reading the application are taken to succeed.)            *)
(***************************************************************************)
EXTENDS Naturals, Sequences, SequencesExt

CONSTANTS
  DataFiles,        \* the application's data files, a sequence of paths
  Packets,          \* the reports an image is sent in
  MaxDisturbances   \* power cycles, interruptions of the tool, failures of
                    \* littlefs

ASSUME FlashingAssumption ==
  /\ DataFiles \in Seq(STRING \ {"none"})
  /\ Packets \in Nat \ {0} /\ MaxDisturbances \in Nat

VARIABLES
  \* The board.
  mode,        \* what runs: an application, the ROM, one of the loaders
  app,         \* the application that runs, if one does
  seen,        \* the board has been enumerated in this mode
  fs,          \* the files of littlefs
  bootImage,   \* the flash holds an elf_loader
  flag,        \* disable_usb_timeout
  timer,       \* usb_timer is running
  loader,      \* what the task elfloader_main is about to load
  target,      \* elfloader_target
  path,        \* elfloader_recv_path
  handle,      \* the file that file_handle has open
  got,         \* the reports received of the current image
  pipe,        \* the HID reports accepted and not yet handled, at most one
  mounted,     \* littlefs is mounted
  failed,      \* a call of littlefs has failed since the tool was started
  \* The host.
  tool,        \* the state of the flash tool
  opts,        \* its options
  prelude,     \* main() is still bringing the board into its elf_loader
  todo,        \* the reports the tool has yet to write, of the current file
  current,     \* which of the FilesToWrite that is
  hid,         \* its HID device: closed, hid, or lost when the board left the bus
  promised,    \* the files it has reported as flashed, after a reset
  disturbed,   \* the user has interfered with this run
  disturbances

board == <<mode, app, seen, fs, bootImage, flag, timer, loader, target, path,
           handle, got, pipe, mounted, failed>>
host == <<tool, opts, prelude, todo, current, hid, promised, disturbed>>
flashVars == <<board, host, disturbances>>

elf == "default.elf"
settings == "usb_ip_address"
Paths == ToSet(DataFiles) \cup {elf, settings}
Options == [ram : BOOLEAN, program : BOOLEAN, data : BOOLEAN, reset : BOOLEAN]
NoFiles == [p \in Paths |-> "none"]

Report(cmd, arg) == [cmd |-> cmd, arg |-> arg]

\* ElfloaderTransferData: target, size, the data, done.
TransferData(what, arg, packets) ==
  <<Report("target", what), Report("setsize", arg)>>
    \o [i \in 1..packets |-> Report("bytes", arg)]
    \o <<Report("done", arg)>>

TransferFile(p) ==
  TransferData("path", p, 1) \o TransferData("filesystem", p, Packets)

\* data_files in the order of the dictionary: data, application, settings.
FilesToWrite ==
  (IF opts.data THEN DataFiles ELSE <<>>)
    \o (IF opts.program THEN <<elf>> ELSE <<>>) \o <<settings>>

Erases == opts.program /\ opts.data
-----------------------------------------------------------------------------
(* The board. *)

\* The HID connection does not survive the board's leaving the bus.
LeaveBus ==
  /\ seen' = FALSE
  /\ hid' = IF hid = "open" THEN "lost" ELSE hid
  /\ pipe' = <<>>

\* main() of the elf_loader, started by the ROM or by the flash loader.
StartElfloader ==
  /\ mode' = "elfloader"
  /\ timer' = ~flag'
  /\ loader' = "none"
  /\ target' = "ram"
  /\ handle' = "none"
  /\ got' = 0
  /\ app' = "none"
  /\ mounted' = TRUE
  /\ LeaveBus
  /\ UNCHANGED failed

\* The ROM's serial downloader or the flash loader.
StartRom(rom) ==
  /\ mode' = rom
  /\ timer' = FALSE
  /\ loader' = "none"
  /\ app' = "none"
  /\ LeaveBus
  /\ UNCHANGED <<target, handle, got, mounted, failed>>

\* From power-off: the memory that is not initialized has lost the flag.
PowerOn ==
  /\ flag' = FALSE
  /\ IF bootImage THEN StartElfloader ELSE StartRom("sdp")

Enumerate ==
  /\ ~seen
  /\ mode # "dead"
  /\ seen' = TRUE
  /\ UNCHANGED <<mode, app, fs, bootImage, flag, timer, loader, target, path,
                 handle, got, pipe, mounted, failed, host, disturbances>>

\* The outcome of a call of littlefs.
LfsWorks == UNCHANGED <<failed, disturbances>>

LfsFails ==
  /\ disturbances < MaxDisturbances
  /\ disturbances' = disturbances + 1
  /\ failed' = TRUE

\* LfsMakeDirs and lfs_file_open with LFS_O_TRUNC and LFS_O_CREAT: a new file
\* exists at once, an existing one keeps its contents on the flash until it is
\* closed.  If either fails, file_handle is not open; the file may exist by then.
OpenFile ==
  LET created == [fs EXCEPT ![path] = IF @ = "none" THEN "empty" ELSE @]
  IN /\ got' = 0
     /\ \/ mounted /\ handle' = path /\ fs' = created /\ LfsWorks
        \/ mounted /\ handle' = "none" /\ fs' \in {fs, created} /\ LfsFails
        \/ ~mounted /\ handle' = "none" /\ UNCHANGED <<fs, failed, disturbances>>
     /\ UNCHANGED <<loader, mounted>>

\* lfs_file_write: a report's bytes are missing when it fails.
WriteFile ==
  /\ \/ handle # "none" /\ got' = got + 1 /\ LfsWorks
     \/ handle # "none" /\ UNCHANGED got /\ LfsFails
     \/ handle = "none" /\ UNCHANGED <<got, failed, disturbances>>
  /\ UNCHANGED <<fs, handle, loader, mounted>>

\* lfs_file_close: the file keeps its earlier contents when it fails, and may
\* keep them when a write before it has failed.
CloseFile ==
  /\ handle' = "none"
  /\ \/ /\ handle # "none"
        /\ fs' = [fs EXCEPT ![handle] =
                    IF got = Packets THEN "new" ELSE "partial"]
        /\ LfsWorks
     \/ handle # "none" /\ UNCHANGED fs /\ LfsFails
     \/ /\ handle = "none" \/ got # Packets
        /\ UNCHANGED <<fs, failed, disturbances>>
  /\ UNCHANGED <<got, loader, mounted>>

\* LfsInit(true) gives up without having mounted anything when it fails.
FormatFs ==
  /\ \/ fs' = NoFiles /\ UNCHANGED mounted /\ LfsWorks
     \/ fs' \in {fs, NoFiles} /\ mounted' = FALSE /\ LfsFails
  /\ UNCHANGED <<handle, got, loader>>

RecvDone ==
  \/ /\ target = "ram"
     /\ loader' = "ram"
     /\ UNCHANGED <<fs, handle, got, mounted, failed, disturbances>>
  \/ /\ target = "path"
     /\ OpenFile
  \/ /\ target = "filesystem"
     /\ CloseFile

RecvData(report) ==
  /\ timer' = FALSE
  /\ pipe' = <<>>
  /\ target' = IF report.cmd = "target" THEN report.arg ELSE target
  /\ path' = IF report.cmd = "bytes" /\ target = "path"
             THEN report.arg ELSE path
  /\ CASE report.cmd = "done" -> RecvDone
       [] report.cmd = "format" -> FormatFs
       [] report.cmd = "setsize" /\ target = "ram" ->
            got' = 0 /\ UNCHANGED <<fs, handle, loader, mounted>> /\ LfsWorks
       [] report.cmd = "bytes" /\ target = "ram" ->
            got' = got + 1 /\ UNCHANGED <<fs, handle, loader, mounted>> /\ LfsWorks
       [] report.cmd = "bytes" /\ target = "filesystem" -> WriteFile
       [] OTHER -> UNCHANGED <<fs, handle, got, loader, mounted>> /\ LfsWorks
  /\ UNCHANGED <<mode, app, seen, bootImage, flag, hid>>

\* littlefs is asked to write or to close a file that is not open, or to open
\* one without being mounted.
Strays(report) ==
  \/ handle = "none" /\ target = "filesystem" /\ report.cmd \in {"bytes", "done"}
  \/ ~mounted /\ target = "path" /\ report.cmd = "done"

\* It then works on freed memory, as its assertions are compiled out (NDEBUG):
\* the call may come to nothing (RecvData), or the board stands still.
StandStill ==
  /\ mode' = "dead"
  /\ timer' = FALSE
  /\ loader' = "none"
  /\ LeaveBus
  /\ UNCHANGED <<app, fs, bootImage, flag, target, path, handle, got, mounted,
                 failed, disturbances>>

\* elfloader_recv handles a report; the next one is accepted afterwards.
Recv ==
  /\ pipe # <<>>
  /\ LET report == Head(pipe) IN
     \/ /\ report.cmd = "reset_to_bootloader"
        /\ StartRom("sdp")
        /\ UNCHANGED <<fs, bootImage, flag, path, disturbances>>
     \/ /\ report.cmd = "reset_to_flash"
        /\ PowerOn
        /\ UNCHANGED <<fs, bootImage, path, disturbances>>
     \/ /\ report.cmd \notin {"reset_to_bootloader", "reset_to_flash"}
        /\ RecvData(report)
     \/ Strays(report) /\ StandStill
  /\ UNCHANGED <<tool, opts, prelude, todo, current, promised, disturbed>>

TimerFires ==
  /\ timer
  /\ timer' = FALSE
  /\ loader' = "flash"
  /\ UNCHANGED <<mode, app, seen, fs, bootImage, flag, target, path, handle,
                 got, pipe, mounted, failed, host, disturbances>>

\* What elfloader_main is going to start.  A file of no bytes is read without
\* an error.
Image ==
  IF loader = "flash" THEN fs[elf]
  ELSE IF got = Packets THEN "ram" ELSE "partial"

\* elfloader_main suspends itself, or the USB task and starts the image.
ElfloaderMain ==
  /\ loader \in {"flash", "ram"}
  /\ IF Image = "none"
     THEN /\ loader' = "suspended"
          /\ UNCHANGED <<mode, app, seen, timer, pipe, hid>>
     ELSE /\ loader' = "none"
          /\ timer' = FALSE
          /\ mode' = IF Image \in {"empty", "partial"} THEN "dead" ELSE "app"
          /\ app' = Image
          /\ LeaveBus
  /\ UNCHANGED <<fs, bootImage, flag, target, path, handle, got, mounted,
                 failed, tool, opts, prelude, todo, current, promised,
                 disturbed, disturbances>>
-----------------------------------------------------------------------------
(* The flash tool: one action per state. *)

Sees(m) == seen /\ mode = m

\* Nothing will bring the board into mode m any more.
Missing(m) ==
  /\ mode # m
  /\ pipe = <<>>
  /\ loader \notin {"flash", "ram"}
  /\ ~timer

Goto(state) ==
  /\ tool' = state
  /\ UNCHANGED <<opts, prelude, current, promised, disturbed, disturbances>>

\* What RunFlashtool's end leads to: main() goes on after its first runs.
Fail == Goto(IF prelude THEN "List" ELSE "error") /\ UNCHANGED todo

\* A Python exception ends the tool, wherever it is.
Raise == Goto("error") /\ todo' = <<>>

\* Mutant of FirstState: only boards that run an application or an elf_loader
\* are looked for.
FirstStateListing == "List"

FirstState ==
  IF Sees("sdp") THEN "CheckForSdp"
  ELSE IF Sees("flashloader") THEN "CheckForFlashloader"
  ELSE "List"

\* main(): what flashing did before is old; a board found in the ROM or in
\* the flash loader is first brought into its elf_loader.
RunTool ==
  /\ tool \in {"idle", "error", "done"}
  /\ opts' \in Options
  /\ fs' = [p \in Paths |-> IF fs[p] = "new" THEN "old" ELSE fs[p]]
  /\ app' = IF app = "new" THEN "old" ELSE app
  /\ promised' = {}
  /\ disturbed' = FALSE
  /\ failed' = FALSE
  /\ todo' = <<>> /\ current' = 1
  /\ tool' = FirstState
  /\ prelude' = (FirstState # "List")
  /\ UNCHANGED <<mode, seen, bootImage, flag, timer, loader, target, path,
                 handle, got, pipe, mounted, hid, disturbances>>

List ==
  /\ tool = "List"
  /\ tool' = IF Sees("elfloader") \/ Sees("app") THEN "CheckForAny"
             ELSE "error"
  /\ prelude' = FALSE
  /\ UNCHANGED <<board, opts, todo, current, hid, promised, disturbed,
                 disturbances>>

CheckForAny ==
  /\ tool = "CheckForAny"
  /\ \/ Sees("app") /\ Goto("CheckForCoralMicro") /\ UNCHANGED todo
     \/ Sees("elfloader") /\ Goto("CheckForElfloader") /\ UNCHANGED todo
     \/ Sees("sdp") /\ Goto("CheckForSdp") /\ UNCHANGED todo
     \/ Sees("flashloader") /\ Goto("CheckForFlashloader") /\ UNCHANGED todo
     \/ mode = "dead" /\ Fail
  /\ UNCHANGED <<board, hid>>

CheckForCoralMicro ==
  /\ tool = "CheckForCoralMicro"
  /\ \/ Sees("app") /\ Goto("ResetToSdp")
     \/ Missing("app") /\ Goto("CheckForSdp")
  /\ UNCHANGED <<board, todo, hid>>

\* Opening the serial port with 1200 baud makes CdcAcm reset the board.  If the
\* port has gone, the tool fails; if it goes while it is being opened, the tool
\* takes it that the board has been reset.
ResetToSdp ==
  /\ tool = "ResetToSdp"
  /\ \/ /\ Sees("app")
        /\ StartRom("sdp")
        /\ Goto("CheckForSdp")
        /\ UNCHANGED <<fs, bootImage, flag, path, todo>>
     \/ /\ ~Sees("app")
        /\ \/ Goto("CheckForSdp") /\ UNCHANGED todo
           \/ Fail
        /\ UNCHANGED <<board, hid>>

CheckForSdp ==
  /\ tool = "CheckForSdp"
  /\ \/ Sees("sdp") /\ Goto("LoadFlashloader") /\ UNCHANGED todo
     \/ Missing("sdp") /\ Fail
  /\ UNCHANGED <<board, hid>>

LoadFlashloader ==
  /\ tool = "LoadFlashloader"
  /\ \/ /\ Sees("sdp")
        /\ StartRom("flashloader")
        /\ Goto("CheckForFlashloader")
        /\ UNCHANGED <<fs, bootImage, flag, path, todo>>
     \/ ~Sees("sdp") /\ Raise /\ UNCHANGED <<board, hid>>

CheckForFlashloader ==
  /\ tool = "CheckForFlashloader"
  /\ \/ /\ Sees("flashloader")
        /\ Goto(IF opts.ram \/ prelude THEN "LoadElfloader" ELSE "Program")
        /\ UNCHANGED todo
     \/ Missing("flashloader") /\ Fail
  /\ UNCHANGED <<board, hid>>

\* The sb file erases the elf_loader, and the file system when all is flashed
\* anew, before it loads the elf_loader.
Program ==
  /\ tool = "Program"
  /\ \/ /\ Sees("flashloader") /\ bootImage
        /\ bootImage' = FALSE
        /\ fs' = IF Erases THEN NoFiles ELSE fs
        /\ UNCHANGED <<tool, opts, prelude, todo, current, promised, disturbed,
                       disturbances>>
     \/ /\ Sees("flashloader") /\ ~bootImage
        /\ bootImage' = TRUE
        /\ fs' = IF Erases THEN NoFiles ELSE fs
        /\ Goto("LoadElfloader") /\ UNCHANGED todo
     \/ ~Sees("flashloader") /\ Raise /\ UNCHANGED <<bootImage, fs>>
  /\ UNCHANGED <<mode, app, seen, flag, timer, loader, target, path, handle,
                 got, pipe, mounted, failed, hid>>

\* What follows in the session once the elf_loader runs.
AfterElfloader ==
  IF prelude THEN Goto("List") /\ UNCHANGED todo
  ELSE IF opts.ram
  THEN Goto("ProgramElfloader") /\ todo' = TransferData("ram", elf, Packets)
  ELSE /\ Goto("ProgramDataFiles")
       /\ todo' = (IF Erases THEN <<Report("format", "none")>> ELSE <<>>)
                    \o TransferFile(FilesToWrite[current])

\* Mutant of WriteFlag: disable_usb_timeout is not written.
WriteNoFlag == UNCHANGED flag

WriteFlag == flag' = TRUE

\* The elf_loader is put into the RAM, told not to time out, and called.
LoadElfloader ==
  /\ tool = "LoadElfloader"
  /\ \/ /\ Sees("flashloader")
        /\ WriteFlag
        /\ StartElfloader
        /\ AfterElfloader
        /\ UNCHANGED <<fs, bootImage, path>>
     \/ ~Sees("flashloader") /\ Raise /\ UNCHANGED <<board, hid>>

CheckForElfloader ==
  /\ tool = "CheckForElfloader"
  /\ \/ /\ Sees("elfloader")
        /\ Goto("ResetElfloader")
        /\ todo' = <<Report("reset_to_bootloader", "none")>>
     \/ Missing("elfloader") /\ Fail
  /\ UNCHANGED <<board, hid>>

Sessions == {"ResetElfloader", "ProgramElfloader", "ProgramDataFiles",
             "ResetToFlash"}

InSession == tool \in Sessions /\ todo # <<>>

\* OpenHidDevice tries for fifteen seconds, then raises.
OpenHid ==
  /\ InSession /\ hid = "closed"
  /\ \/ /\ Sees("elfloader")
        /\ hid' = "open"
        /\ UNCHANGED <<tool, opts, prelude, todo, current, promised, disturbed,
                       disturbances>>
     \/ Missing("elfloader") /\ Raise /\ UNCHANGED hid
  /\ UNCHANGED board

\* Mutant of Accepts: a report overwrites the one that is being handled.
AcceptsAlways == TRUE

\* The endpoint is armed again when a report has been handled.
Accepts == pipe = <<>>

\* StateProgramDataFiles goes through the files in turn.
NextReports ==
  IF tool = "ProgramDataFiles" /\ Len(todo) = 1 /\ current < Len(FilesToWrite)
  THEN /\ current' = current + 1
       /\ todo' = TransferFile(FilesToWrite[current + 1])
  ELSE todo' = Tail(todo) /\ UNCHANGED current

\* h.write waits until the board accepts the report.  It fails when the board
\* has gone, and the tool does not look at the result.
HidWrite ==
  /\ InSession /\ hid # "closed"
  /\ hid = "open" => Accepts
  /\ NextReports
  /\ pipe' = IF hid = "open" THEN <<Head(todo)>> ELSE pipe
  /\ UNCHANGED <<mode, app, seen, fs, bootImage, flag, timer, loader, target,
                 path, handle, got, mounted, failed, tool, opts, prelude, hid,
                 promised, disturbed, disturbances>>

\* The state's last report has been written.
EndSession ==
  /\ tool \in Sessions /\ todo = <<>>
  /\ hid' = "closed"
  /\ CASE tool = "ResetElfloader" -> tool' = "CheckForSdp" /\ todo' = <<>>
       [] tool = "ProgramDataFiles" /\ opts.reset ->
            /\ tool' = "ResetToFlash"
            /\ todo' = <<Report("reset_to_flash", "none")>>
       [] OTHER -> tool' = "done" /\ todo' = <<>>
  /\ promised' = IF tool = "ResetToFlash" /\ ~disturbed
                 THEN ToSet(FilesToWrite) ELSE promised
  /\ UNCHANGED <<board, opts, prelude, current, disturbed, disturbances>>
-----------------------------------------------------------------------------
(* The user. *)

PowerCycle ==
  /\ disturbances < MaxDisturbances
  /\ disturbances' = disturbances + 1
  /\ disturbed' = (tool \notin {"idle", "error", "done"})
  /\ PowerOn
  /\ UNCHANGED <<fs, bootImage, path, tool, opts, prelude, todo, current,
                 promised>>

Interrupt ==
  /\ disturbances < MaxDisturbances
  /\ tool \notin {"idle", "error", "done"}
  /\ disturbances' = disturbances + 1
  /\ tool' = "idle"
  /\ todo' = <<>>
  /\ hid' = "closed"
  /\ UNCHANGED <<board, opts, prelude, current, promised, disturbed>>

\* A board as delivered, with or without an application, or as an earlier run of
\* the tool has left it, in any mode that it can be found in.
FlashInit ==
  /\ \E image \in {"none", "old"} :
       /\ fs = [NoFiles EXCEPT ![elf] = image]
       /\ \/ mode = "app" /\ image = "old" /\ app = image /\ timer = FALSE
          \/ mode = "elfloader" /\ app = "none" /\ timer = TRUE
          \/ mode = "sdp" /\ app = "none" /\ timer = FALSE
  /\ seen \in BOOLEAN
  /\ bootImage = TRUE
  /\ flag = FALSE
  /\ loader = "none"
  /\ target = "ram"
  /\ path = "none"
  /\ handle = "none"
  /\ got = 0
  /\ pipe = <<>>
  /\ mounted = TRUE /\ failed = FALSE
  /\ tool \in {"idle", "done"}
  /\ opts = [ram |-> FALSE, program |-> FALSE, data |-> FALSE, reset |-> FALSE]
  /\ prelude = FALSE
  /\ todo = <<>> /\ current = 1
  /\ hid = "closed"
  /\ promised = {}
  /\ disturbed = FALSE
  /\ disturbances = 0

Board == Enumerate \/ Recv \/ TimerFires \/ ElfloaderMain

Tool ==
  \/ List \/ CheckForAny \/ CheckForCoralMicro \/ ResetToSdp \/ CheckForSdp
  \/ LoadFlashloader \/ CheckForFlashloader \/ Program \/ LoadElfloader
  \/ CheckForElfloader \/ OpenHid \/ HidWrite \/ EndSession

FlashNext == Board \/ Tool \/ RunTool \/ PowerCycle \/ Interrupt

\* Board and tool go on working, and the user runs the tool again until it has
\* reported success.
FlashFairness ==
  /\ WF_flashVars(Enumerate)
  /\ WF_flashVars(Recv)
  /\ WF_flashVars(TimerFires)
  /\ WF_flashVars(ElfloaderMain)
  /\ WF_flashVars(Tool)
  /\ WF_flashVars(tool # "done" /\ RunTool)

FlashSpec == FlashInit /\ [][FlashNext]_flashVars /\ FlashFairness
-----------------------------------------------------------------------------
\* A board that the boot timer of its elf_loader may take away is never sent
\* files: whichever way the tool has got there, also after interrupted runs and
\* power cycles before it was started, the elf_loader it programs through was
\* told not to time out.
FlashingUndisturbed ==
  ~disturbed /\ hid = "open" /\ tool \in {"ProgramElfloader", "ProgramDataFiles"}
    => ~timer /\ loader # "flash"

\* After "Flashing to flash storage complete, the device is restarting to
\* execute your application": every file of an undisturbed run in which littlefs
\* did not fail is on the flash in full, although nothing but the order of the
\* reports tells the tool so, and no power cycle brings back an older application.
BootsWhatWasFlashed ==
  ~failed =>
    /\ \A p \in promised : fs[p] = "new"
    /\ elf \in promised /\ mode = "app" => app = "new"

\* However the tool was interrupted and the board restarted, and whatever
\* littlefs did in earlier runs, running the tool again ends in success at last,
\* and the new application then starts, if littlefs did not fail in that run.
\* Not so if the power fails while /default.elf is open, or the file is left
\* incomplete: the elf_loader then takes it for an application and leaves the
\* bus.  And not if littlefs is used after it has failed, which may leave the
\* board at a standstill.
FlashingSucceeds ==
  /\ []<>(tool = "done" \/ mode = "dead")
  /\ elf \in promised /\ ~failed ~> mode = "app" \/ promised = {}
=============================================================================
