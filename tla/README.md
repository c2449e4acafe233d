# A formal model of BoltOS

BoltOS is a 64-bit hobby operating system in C and assembly: a preemptive
kernel with ring-3 programs, a file system kept in memory and saved to disk, a
network stack up to TLS, a windowed desktop with a browser. This directory
holds TLA+ specifications of the parts of its kernel in which several actors
share state or a failure can strike between two steps, TLC configurations that
model-check them, and TLAPS proofs of the results that matter most for every
value of their constants. Paths below are relative to the repository root
unless they name a `.tla` or `.cfg` file.

## 1. The system

### 1.1 Who runs when

Everything below runs on the boot processor: application processors are started
(`kernel/smp.c`) and then idle. On that processor there are

| actor | interrupts | can be preempted |
|---|---|---|
| kmain, the boot context in scheduler slot 0: desktop, shell, network client, the only caller of `proc_exec` and `sched_add` | on | between any two instructions |
| kernel threads kmain starts | on | between any two instructions |
| ring-3 programs, in user mode | on | between any two instructions |
| ring-3 programs, inside a SYSCALL | off (FMASK clears IF) | never |
| interrupt handlers: tick, keyboard, mouse, e1000 (see below) | off | never |

With an I/O APIC the kernel routes four lines only (`kernel/apic.c:202-205`),
none of them the network card's, and frames are received by kmain's polling;
where the 8259 is used instead, the card's interrupt handler polls too.

So a system call is atomic with respect to everything else, and kmain, which
executes the same kernel functions with interrupts on and without any lock, is
not. Nearly every hazard of this kernel is an instance of that asymmetry: a
program's call lands in the middle of kmain's version of the same call. The
other source is hardware: a disk that loses power or fails a command, a network
that loses frames.

### 1.2 Components

| component | state | operations | talks to |
|---|---|---|---|
| Scheduler, tick (`kernel/sched.c`, `isr.asm`, `interrupts.c`) | the slot table `th[]`, `cur`, FPU areas | `sched_add`, `sched_add_user`, `schedule`, `sched_exit_current`, `fpu_save/restore_current` | called by the tick, by kmain, by `proc_exit` |
| System-call path (`kernel/syscall.asm`, `syscall.c`) | `syscall_user_rsp`, `syscall_kstack_top`, RFLAGS.IF | entry, dispatch, return | every other component; armed by `schedule` |
| Panel ownership (`kernel/gui.c`, `syscall.c`) | `g_fb_exclusive`, the framebuffer | the desktop loop's check and blit; SYS_FBINFO, SYS_FBPRESENT, SYS_FBEND; exit | kmain and ring-3 renderers |
| Programs (`kernel/proc.c`, `elf.c`) | `proc_t`: address space, break, descriptors | `proc_exec_argv`, `proc_exit` | scheduler, memory, VFS |
| Kernel heap (`mm/kheap.c`) | one list of blocks over a fixed window | `kmalloc`, `kfree`, `kheap_usage` | everyone |
| Frames and address spaces (`mm/pmm.c`, `mm/vmm.c`) | the frame bitmap, page tables | allocate, free, map, translate | `proc_exec`, brk, mmap |
| BoltFS tree (`fs/ramfs.c`, first half), VFS (`kernel/vfs.c`) | nodes, current directory, open files | create, write, move, remove, open, read, close | shell, Explorer, SYS_OPEN ... |
| Shell file commands, Explorer (`kernel/cmd_fs.c`, `cmd_extra.c`, `app_files.c`) | a saved directory; folder shown, selection, history, clipboard | mv, rm, cd, trash, recover, sandbox; open, cut, paste, rename, delete | BoltFS tree |
| BoltFS persistence (`fs/ramfs.c`, second half; `kernel/blk.c`) | the partition's image | `fs_sync`, `fs_load_image`, `fs_persist_init` | every mutation, boot, disk drivers |
| Disk drivers (`drivers/nvme.c`, `ata.c`, `ahci.c`) | queues, bounce pages | one command at a time | block layer |
| Ethernet, ARP (`net/eth.c`, `arp.c`, `drivers/e1000.c`) | descriptor rings, one transmit frame, the cache | poll, interrupt, send, resolve | IP |
| TCP (`net/tcp.c`) | connections, receive rings | connect, send, receive, close, segment input | HTTP, TLS |
| DHCP (`net/dhcp.c`) | the run's xid and offer, the lease | DISCOVER, REQUEST, install, give up; replies inside a poll | UDP |
| `share` (`kernel/cmd_net.c`) | `S`: what the sender waits for, what the receiver holds | offer, send, receive, give up; packets inside a poll | UDP, BoltFS tree |
| IP, ICMP, UDP, DNS, firewall (`net/`) | rule list | packet input, queries | |
| TLS, cryptography, X.509, HTTP (`net/`) | sequential | | |
| SMP start (`kernel/smp.c`, `ap_boot.asm`) | the parameter block, `g_ap_ack`, `g_online`, `g_cpus` | start one processor after another | the application processors |
| EXT2 (read-only), FAT32 (`fs/`) | volumes | read, list; write, mkdir | block layer |
| USB, keyboard, mouse, audio (`drivers/`) | device rings, the key ring | poll, interrupt, SYS_GETKEY | desktop, programs |
| Browser, interpreters, applications, shell, libc | sequential, kmain's | | |
| Boot loaders (`boot/`) | run once | | |

### 1.3 What is hard, and what correct means

`PROJECT.json` lists the hazards at their lines. By component:

* **Scheduler.** A slot is picked, filled and published by kmain while programs
  exit and free other slots, and while the exiting thread still runs on a
  retired slot. Correct: no context is lost, entered twice or entered after its
  exit; every thread gets its FPU values, address space and stack back; round
  robin starves nobody.
* **System calls.** One scratch word and one armed kernel stack serve all
  programs. Correct: whatever happened between two calls, the pair belongs to
  the program that is running; a call returns.
* **Panel.** The flag has no owner. Correct: the desktop is never parked for a
  program that no longer exists.
* **Heap.** Splits and forward-only coalescing over long call sequences.
  Correct: the blocks tile the window, no byte is lost, live allocations never
  overlap or move.
* **Persistence.** The image is rewritten in place, without a lock or a second
  copy, on every mutation. Correct: a save that ended undisturbed is what the
  next boot finds; a boot takes an image whole or not at all.
* **Frames.** `is_used` and `set_used` are two steps; failures part-way through
  exec, brk and mmap. Correct: no frame has two owners, what is owned is not in
  the pool, what a call granted stays mapped, and frames are lost only where the
  code gives them up.
* **Tree and descriptors.** Raw node pointers in open files, the current
  directory and the Explorer; appends to a list another actor has changed.
  Correct: the lists are one tree, file objects and descriptors stay paired, and
  pointers that dangle do so in known cases only.
* **NVMe.** Completions that arrive after their command timed out, a queue and a
  bounce page shared without a lock. Correct: each chunk moves its own data, and
  the queue falls behind only by its timeouts.
* **DHCP.** Replies lost, repeated, late, from two servers or an earlier run.
  Correct: the address installed is one a server has acknowledged.
* **FAT32.** A call is many writes, old data goes before new data comes, results
  are often not looked at, and cluster 0 means two things. Correct: no two
  entries share a cluster and no cluster in use is free.
* **SMP start.** One parameter block and one acknowledgement flag for all
  processors, which answer when they like. Correct: what is counted runs, on a
  stack and slot of its own.
* **Keyboard.** A ring for one producer and one consumer, with two of each.
  Correct: every key is handed over once, in order.
* **Card.** Where the card's interrupt is delivered, its handler drains the ring
  that kmain is draining and sends with the frame and the descriptor kmain is
  filling. Correct: each frame taken is delivered once and in order, each frame
  put together goes out once, as it was put together.
* **share.** Stop-and-wait over a network that loses, repeats and reorders,
  with senders that give up, a receiver that is cancelled, and packets that do
  not say which transfer they belong to. Correct: what is saved is the whole
  file offered, and what is reported as sent was received.
* **TCP.** Loss, duplication, reordering, retransmission, a full ring, resets.
  Correct: each end reads a prefix of what the other wrote and is told of the
  end only at the end; what was acknowledged is kept; a send that succeeded was
  received; everything is delivered if the network lets repeats through.

## 2. The modules

| module | what it is |
|---|---|
| `Sched.tla` | scheduler, tick, system-call entry and return, program creation and exit, panel |
| `MCSched.tla` | its instance for TLC |
| `CpuProofs.tla` | proofs about `Sched` and `Smp` |
| `HeapSpec.tla` | what an allocator promises |
| `KHeap.tla` | the block list of `mm/kheap.c`, which implements it |
| `MemProofs.tla` | proofs about `KHeap` and `UserMem` |
| `BfsImage.tla` | saving and loading the BoltFS image |
| `MCBfsImage.tla`, `DiskProofs.tla` | instance; proofs, with those of `Nvme` and `Fat32` |
| `ByteStream.tla` | what one direction of a connection promises |
| `Tcp.tla` | a connection of the TCP client, the network and a peer, which implement it in both directions |
| `MCTcp.tla`, `TcpProofs.tla` | instance and proofs |
| `Files.tla`, `FilesProofs.tla` | the BoltFS tree, descriptors, the shell's file commands and the Explorer; proofs |
| `UserMem.tla`, `MemProofs.tla` | frames, page tables, exec, brk, mmap, exit; proofs (with those of `KHeap`) |
| `Nvme.tla`, `DiskProofs.tla` | the NVMe queue pair and its controller; proofs (with those of `BfsImage` and `Fat32`) |
| `Dhcp.tla`, `NetProofs.tla` | the DHCP client; proofs (with those of `Share`) |
| `Smp.tla`, `CpuProofs.tla` | starting the application processors; proofs (with those of `Sched`) |
| `Keys.tla`, `RingProofs.tla` | the keyboard ring; proofs (with those of `E1000`) |
| `Fat32.tla`, `MCFat32.tla`, `DiskProofs.tla` | writing to the FAT32 volume; instance; proofs (with those of `BfsImage` and `Nvme`) |
| `Share.tla`, `MCShare.tla`, `NetProofs.tla` | file sharing between machines; instance; proofs (with those of `Dhcp`) |
| `E1000.tla`, `RingProofs.tla` | the card's two rings and the frame sends are put together in; proofs (with those of `Keys`) |
| `MCNet.tla`, `NetProofs.tla` | one instance for `Tcp`, `Dhcp`, `Share` and `E1000`; that it is one of each |
| `MCLists.tla`, `MemProofs.tla` | one instance for `KHeap` and `Files`; that it is one of each |
| `MCParts.tla` | one instance for `BfsImage`, `Fat32`, `Nvme`, `UserMem`, `Smp` and `Keys` |
| `WalkProofs.tla` | lemmas about walks, for the proofs of `Files` and `Fat32` |

The specifications in one of the last three instances share no state: the
variable `part` says which of them a behaviour is of, the others keep their
initial state, and a run explores each by itself.

`Sched` composes four of the components above, because their correctness cannot
be told apart: a slot's reuse, the FPU area, the stack a system call enters on
and the panel's claim all change in the same exit and the same switch.

Each component module also holds a few operators commented *Mutant of ...*:
the form a definition would take with a plausible bug in the code. No
specification uses them; they document that every property notices a bug.

### 2.1 Sched

An atomic step is a stretch of code that nothing can interrupt or whose partial
effects nobody else can see. System calls and handlers are therefore single
steps; kmain's `sched_add` is four.

| model | code |
|---|---|
| `used[s]`, `rsp[s]`, `proc[s]`, `fx[s]`, `cur` | `th[s].used`, `.rsp`, `.proc` (with `.cr3`, `.kstack_top`), `.fxarea`; `cur` |
| `running`, `ifl`, `cr3`, `fpu` | the registers: whose frame is loaded, RFLAGS.IF, CR3, whose FPU values |
| `kstackTop`, `userRsp` | `syscall_kstack_top` (and TSS.RSP0), `syscall_user_rsp` |
| `pc[t]` | where a thread is: kmain in the desktop loop (`run`, `blit`) or in `sched_add` (`picked`, `filled`, `published`); others `new`, `ready` (computing), `sys` (in a call), `http` (in a wait's `hlt`), `parked` (exited) |
| `aslot`, `athr` | `sched_add`'s local `i` and the thread it is creating |
| `fbExcl`, `screen` | `g_fb_exclusive`; who painted last |
| `own`, `claims` | history: what each thread left in the FPU; who took the panel and has neither released it nor exited |
| `AddPick`, `AddFill`, `AddPublish`, `AddFpu`, `AddNoMemory` | `sched_add`, `sched_add_user`: `slot_alloc`; frame and slot fields; `used = 1`; `fpu_init_area`; `kmalloc` fails |
| `Compute(t)` | the running thread uses the FPU |
| `GuiCheck`, `GuiBlit` | the loop of `gui_run`: test the flag; blit |
| `SysEnter`, `Sysret`, `SysOther`, `SysFbInfo`, `SysFbPresent`, `SysFbEnd`, `SysHttpWait`, `SysExit` | SYSCALL entry; return; a call without effect here; the panel's calls; SYS_HTTPGET reaching its first `hlt`; `proc_exit` with `sched_exit_current` |
| `Tick` | `isr_common` around `schedule`: save FPU, save frame if the slot is alive, scan, switch, restore FPU |
| `Irq` | `isr_common` around any other handler |

A thread stands for its own frame, stack, address space and FPU contents, so
`rsp[s] = t` reads "the frame saved in slot s is t's". CPU exceptions stop the
machine (`interrupts.c`) and are not actions. A program's slot is never freed
other than by its own exit; kernel threads never exit.

### 2.2 HeapSpec and KHeap

`HeapSpec` knows a set of live allocations `<<start, length>>` and two steps:
a new one inside the window, at least as long as the request and apart from
every live one; a release of one, which leaves the others alone. `KHeap` has the list: `hdrs` (where headers
lie), `size`, `next`, `free`, one action per path of `kmalloc` (`Take`, `Split`)
and `kfree` (`Absorb`, `Mark`). A block is named by its header's address; the
refinement maps the blocks that are not free to their payloads. One call runs
at a time: overlapping calls are a hazard of their own (section 7).

### 2.3 BfsImage

A tree is the sequence of pieces its serialisation fills; a piece is what one
driver command transfers. `disk` is the partition; `kpc`, `kimg`, `kpos` are
kmain's place in `fs_sync` (measured, writing), the image it writes and how far
it is. kmain's sync is one step per command, because programs run between
commands; a program's call (`SysMutate`) is one step, with every prefix of its
writes possible if a command fails. Boot (`BootLoads`, `BootLoadsGarbled`,
`BootFormats`, `BootClears`) is `fs_persist_init` with each way
`fs_load_image` can end. The checksum is modelled as the serialisation itself:
it tells images apart, except serialisations with equal sums, which the code
does not tell apart either and the model does not produce. `Faults` says which
of power loss in the middle of a sync, read errors, write errors and failing
allocations are possible; a run without faults still powers off between kmain's
operations.

`clean` and `saved` are history: the last mutation has been saved by a sync
nothing overlapped; the users' tree has been saved that way at least once.

### 2.4 ByteStream and Tcp

`ByteStream` has a writer and a reader: the reader's bytes are a prefix of the
writer's, and the end is told after all of them. `Tcp` has one `tcp_conn`
(`state`, `sndNxt`, `sndUna`, `rcvNxt`, `reset`, `finSeen`, and `ring`, the bytes
between `rx_tail` and `rx_head`), kmain's place in the call it is in (`pc`,
`off`, `want`, `outcome`), the segments in flight each way (`down`, `up`) and the
peer. A step of kmain is the code between two calls of `netif_poll_all`
(`Connect`, `SynSend`, `ConnectDone`; `SendStart`, `SendRetry`, `SendNext`,
`SendDone`, `SendFail`; `RecvData`, `RecvEof`; `CloseWithFin`, `CloseEnd`);
`Input` is `tcp_input` for one segment, which runs only inside such a poll,
because the card's line is masked where the APIC is used (section 1.1). A
timeout may fire whenever its condition holds. The user makes one request, reads
any amount at any time between calls, and closes whenever it likes.

The network keeps a set of segments: it hands over any of them, in any order,
leaves it in place or not, and loses any of them. The peer is external: it
completes the handshake, repeats whatever is unacknowledged inside the window we
advertised, probes a closed window with one byte, acknowledges in order, closes
its side, or resets.

Data are reduced to units. Byte k of the peer's stream is the number k, and
so is chunk k of the request, with one sequence number each, so a byte that is
lost, repeated or out of place shows. Checksums, ports and the clamp of the
window to 16 bits are left out; sequence numbers are taken modulo `SeqMod`, and
`Ahead` is the signed comparison at that width.

### 2.5 Files

`tree` maps each allocated node to whether it is a directory, its parent, its
name and the list of its children (`child` and `next` in the code); the null
pointer is `None`, a pointer to
a node that has been freed is the value `Freed`. What a step does through such a
pointer is undefined and not modelled: the step is not enabled. kmain works in
the shell or in the Explorer (`ui`).

kmain's appends are two steps. `StartLink` has walked to the end of the list,
`KLink` stores the node there; in between a program may append to the same list
(`SysOpenNew`), and kmain's store then cuts its file off. `mixed` (history)
says that this has happened. Everything else kmain does to the tree is one step,
which leaves its other races (a program that opens a file while kmain removes
it) to the descriptor becoming `Freed`.

| model | code |
|---|---|
| `KCreate`, `KMove`, `KRemove`, `KChdir` | `fs_create`, `fs_move`, `fs_remove_node`, `fs_chdir` as mkdir, touch, mv, trash, recover, rm and cd call them |
| `KSandbox`, `KSandboxEnds` | `cmd_sandbox` before and after the command it runs |
| `Go`, `GoBack`, `Click`, `CutSel`, `Paste`, `Rename`, `Delete` | the Explorer; `pane` is its folder, its selection and the last folder of its history |
| `SysOpenOld`, `SysOpenNew`, `SysOpenOther`, `SysOpenProcFails` | SYS_OPEN on a file, with O_CREAT, on /dev and /proc, and when the file object of a /proc text cannot be had |
| `SysClose`, `SysExitFiles`, `KExecFiles` | `proc_fd_close`; `proc_exit`; the console descriptors of `proc_exec_argv`, also when `sched_add_user` then fails |

`objects` and `buffers` count what is on the heap, `lost` what failing calls left
there. File contents are left out (`BfsImage` has what saving them does); so are
the Explorer's copies and the second and older entries of its history.

### 2.6 UserMem

One job at a time walks a range of pages for kmain's exec (`image`, `stack`,
`add`) and one for the program in a system call (`brk`, `mmap`); a step of a job
is one `pmm_alloc_frame`, one entry written, or one page skipped. In a program's
call `pmm_alloc_frame` is one step (`SysAlloc`); kmain's is two, the bit tested
(`KPick`) and the bit set (`KTake`), and a whole call may come in between;
`raced` says that it took the frame. Page tables are the levels of `Path[v]`,
shared by neighbouring pages. `KExecFails` is every way out of `proc_exec_argv`
once the address space exists, `SysFail` a brk or mmap that finds no frame.
`abandoned` (history) collects the frames the code forgets: a program's at exit,
a failed exec's, and those under an mmap retried over the pages a failed one
left (`patchy`).

Breaks stay below `USER_MMAP_BASE` and `mmap_cur` below the stack. In the code
the regions are 2^46 bytes apart, which no machine has frames for, so a call
that would reach the next region fails for lack of frames long before.

### 2.7 Nvme

`call[w]` is the place of kmain and of a program in `nvme_rw` and `submit`:
copy to the bounce page, fill the entry at the tail, ring the doorbell, look up
the completion slot, wait, copy out. kmain may be preempted between any two of
them; a program's request, which runs with IF clear, goes from its first step to
its last. `clash` (history) says that one has fallen inside a chunk of kmain's.
The controller fetches entries in order (`DevFetch`) and completes them in any
order, with any status, whenever it likes (`DevComplete`), also after `submit`
has given up (`Timeout`, `late`). `TakeCompletion` is the end of `submit`'s loop:
the slot at `cq_head` has the phase looked for, whosever command it is.

### 2.8 Dhcp

`dhcp_configure` is four steps around its two waits (`Discover`, `Request`,
`Install`, `GiveUp`); `Poll` is one frame taken by `netif_poll_all` inside a
wait, and the wait looks at its flag only when the ring is empty, as
`wait_flag` does. Servers answer any run so far with anything they may say
(`MayAnswer`): offers of any address, an acknowledgement of what was asked, a
refusal. `stray` (history) says that a reply has been read that its run had no
use for.

### 2.9 Smp

`smp_init` is one step per statement another processor can see (`Prepare`,
`SetArg`, `ClearAck`, `SendInit`, `SendSipi`, `ResendSipi`, then `CountIt` or
`DidNotStart`). A processor takes a SIPI or not (`Sipi`), reads RSP and RDI from the
block (`ReadStack`, `ReadArg`), marks its slot (`Enter`) and acknowledges
(`Acknowledge`), each whenever it likes: also after its wait is over and the
block is the next one's. `givenUp` (history) is whom `smp_init` has stopped
waiting for. Stacks are numbered in the order `kmalloc` returns them; those of
processors that never came are not freed.

### 2.10 Keys

The interrupt's push (`KeyIrq`) and a program's SYS_GETKEY (`GetKey`) run with
IF clear and are one step each. kmain's push, on behalf of a USB keyboard, is
`PollRoom`, `PollStore`, `PollTail`; its `kbd_trygetc` is `TryGet`, `TakeLoad`,
`TakeNext`, `TakeHead`: the loads and stores of the source, with anything in
between. Keys are numbered as they are pressed. `crossed` (history) says that
the end of the ring kmain is moving was moved by another. From then on the ring
can hand a drained lap over again, or lose it.

### 2.11 Fat32

`op` is the call in progress, and a step is one disk write that matters: a FAT
entry, one directory cluster. `BeginWrite` finds the file; `FreeOne` walks
`free_chain`; `MarkDeleted` goes through the directory; `AllocData` and
`WriteData` loop over the data; `PutEntry`, or `GrowDir`, `JoinDir` and
`FillDir`, put the entry. A write may fail at any step, and the model goes on
where the code does not look at the result. `PowerFails` stops a call anywhere;
nothing of a call is kept in memory. `To83` is `to_short`: two names may become
one, and such entries are then marked deleted together. `hurt` (history) says
that the volume was left inconsistent in one of the known ways.

Directories are the root and those in it; reads do not fail; names with a
regular file in the middle of the path, which `resolve` would walk as if it
were a directory, are not tried.

### 2.12 Share

Any number of machines send, one receives; each runs one `share` at a time, and
may run the next when one is over. A file is its name and its number of chunks;
chunk k of file f is the value `Piece(f, k)`, so one that is missing, repeated
or of another file shows in the buffer.

| model | code |
|---|---|
| `send[s].at`, `.seq`, `.accept`, `.ack` | where `share_send_to` is; the chunk it sends; `S.got_accept`, `S.last_ack` |
| `recv` | `S.recv_busy`, `recv_done`, `recv_src`, `recv_name`, `recv_expect`; `buf` is what `recv_got` counts of `recv_buf`, `on` that share_recv listens |
| `disk`, `reported` | the files saved; the senders that printed "sent" |
| `Offer`, `Accepted`, `Acked`, `Resend`, `Stall`, `Report` | `share_send_to`: its first packet; a wait that ends well, with the packet that follows; a wait over, with tries left and without; the last DONE |
| `Listen`, `Save`, `CannotSave`, `Cancel` | `share_recv`: the start; the end with the file saved, with the file system refusing it, by ESC |
| `TakeOffer`, `TakeData`, `TakeDone`, `TakeAnswer` | `share_cb` for SH_OFFER, SH_DATA, SH_DONE, SH_ACCEPT and SH_ACK, with its answer |
| `Vanish`, the argument `stays` | the network loses a packet; keeps a copy of one it hands over |

The fields `id` are history: the number of the transfer a packet was sent for.
No guard reads them; they only tell when `mixed` is set: a packet was taken for
one of another transfer, or the offer of a transfer that is over began a new
one. A wait's clock is left out: it may end at any time. Waits run
`netif_poll_all`, so `share_cb` runs inside them and never in the middle of the
code between two of them.

### 2.13 E1000

kmain's `rx_drain` is one step per store that the handler could see: the test
of DD (`PollTest`), `netif_rx` (`Hand`), DD cleared (`Clear`), `rx_cur` moved
(`Advance`), RDT written (`HandBack`); its send is `Fill` (`eth_send` puts the
one static frame together), `Slot` (`tx_cur` read and waited for), `Copy` and
`Post` (the descriptor, `tx_cur`, TDT). A frame in `Asking` is answered with a
send from inside `Hand`, after which kmain goes on at `Clear` (`back`). The
handler (`IsrEnter`, `IsrDrain`, `IsrLeave`) runs with IF clear: one turn of its
loop, with the answer it sends, is one step. The card takes a frame while
RDH # RDT and sends while TDH # TDT.

Frames are numbered. `handed` and `wire` are history: what went to `eth_input`
and out of the card. `nested` says that the handler drained a frame while kmain
was at the rings, `full` that a descriptor was taken which the card still had,
because the wait in `e1000_send` is not for ever.

## 3. The runs

| run | instance | states | what it shows |
|---|---|---|---|
| `sched` | 3 slots; kmain, one kernel thread, two programs | 88 283 | `TypeOK`, `SavedContexts`, `SyscallContext`, `FpuPreserved`, `PanelNotLeaked`, `NoResurrection`, `EverySlotRuns` |
| `net` | TCP: a request of two chunks, two bytes of answer, a ring of one byte, two segments in flight to us and one to the peer; DHCP: two servers, an address they hand out, two runs, a receive ring of two; share: two senders, a file of two chunks, two transfers, two packets in flight; card: four receive and three transmit descriptors, seven frames in, six out | 519 985 | `NetTypeOK`; `AckedIsKept`, `SentIsReceived`, refinements `DownSpec`, `UpSpec`; `LastGrantIsInstalled`; `SavedIsSent`, `ReportIsTrue`; `FramesOnce` |
| `tcp_progress` | two chunks, one segment in flight each way, fair | 51 374 | `AllRead` |
| `lists` | heap: window of 36 units, header 3, granule 2, requests 1, 3, 5, 9; tree: root, bin and two more nodes, two names, one program with one descriptor | 451 689 | `ListsTypeOK`; `Tiling`, refinement `AllocSpec`; `TreeOK`, `DescriptorsCounted`, `CwdOutlivesRm`, `BinOnly`, `PaneHolds` |
| `parts` | image: four trees of one to three pieces, a partition of three, all faults; FAT32: five clusters of two entries, three names, files of up to two clusters; NVMe: a queue of three entries, two blocks, one timeout; memory: two programs, eight frames, five pages under four tables; SMP: three processors beside the boot processor, a table for three with it; keyboard: a ring of three, seven keys | about 518 000 | `TypeOK`, `DiskMatches`, `SavedTreeAllOrNothing`; `ChainsApart`; `NvmeTypeOK`, `BehindByTimeouts`, `ChunksMove`; `MemTypeOK`, `SoleOwner`, `OwnedIsUsed`, `NoFrameLost`, `GrantedIsMapped`; `CountedAreOnline`, `OwnPlace`; `KeysOnce` |
| `sched_fpu_leak` | as `sched` | | refutes `FpuNeverLeaks` |
| `sched_http_hang` | as `sched`, fair | | refutes `HttpGetReturns` |
| `sched_panel_race` | as `sched` | | refutes `NoVramRace` |
| `bfs_reboot` | the image alone, as in `parts` but without faults | | refutes `FilesSurviveReboots` |
| `nvme_stolen_completion` | one block, two command identifiers, no timeout | | refutes `OwnCompletion` |
| `fat_root_freed` | three clusters, an empty file from a PC | | refutes `RootHeld` |
| `share_stale_offer` | one sender, files of two chunks and of one, three packets in flight | | refutes `ReliablyShared` |

**Why the bounds are enough.** Three slots are the least with which a slot is
reused while two other live threads wait, the scan wraps around over an unused
slot, and the table is full; two programs are the least that share the scratch
word, the panel and (one after the other) a slot. Nothing in `Sched` counts, so
no other bound is needed. The heap's window holds up to five blocks, so a block
can have free and live neighbours on both sides and non-adjacent free blocks
survive a pass; the sizes give exact fits, splits and remainders too small to
split. The trees make images grow, shrink, share a piece and outgrow the
partition; three pieces allow a torn image with the superblock old or new.
In `net`, TCP's both initial sequence numbers lie just below the wrap, so it happens in
the handshake or in the data; a ring of one byte is full after every byte; two
segments towards us let data and FIN overtake each other and an old segment meet
a new one. `DownCap` and `UpCap` bound what is in flight by losing the rest,
which the network may do anyway; `NetCap` does the same for `share`, where two
transfers are the least that can be mixed up, of one sender or of two, and a
file of two chunks the least of which one chunk can be taken for the other. The
card's rings go round more than once and fill up, with an answer due at frames
next to each other and apart.
In `lists` four nodes are the least with a directory inside a directory next to
the bin and a file in it; one descriptor makes the table full after one open;
`MaxLost` allows one failing call. In `parts` a program that is granted all it may
ask for holds nine frames, five pages and the four tables above them. With eight
it is granted each thing in some behaviour, the other program can hold the frames
it lacks, and every loop runs out at every place; `UserMem` is proved for any
number of frames.
In `net` two servers and two runs of DHCP give late, repeated and leftover replies;
with one address to hand out, an address installed without a grant still shows,
and `Dhcp` and `Share` are proved for any number of addresses, servers,
senders and files. In `parts` three
processors are the least of which one answers in the round after its own and the
third comes after both; `MaxCpus` fills up before they do. Seven keys go through
a ring of three, which holds two, more than twice. Five clusters
hold the root, a longer root, a directory or two files, and run out; two entries
to a cluster make the root grow; one name shortens to another. In `parts` NVMe's
ring of three wraps twice in a request of two chunks, and its phase toggles;
command identifiers play no part in what the code decides, so one is enough
there. The constraint `MCUndisturbed` of each composed run stops where a
history variable (`raced`, `stray`, `crossed`, `clash`, `hurt`, `mixed`,
`nested`) becomes true, after which the properties that name it claim nothing
(`GrantedIsMapped` and the type invariants of the proved modules do, and are
proved), and in `net` where TCP's connection is closed; TLC still checks the
states in which it stops. The view `MCView` of each composed run is the state of
the part explored, and in `parts` forgets entries of NVMe's rings that are over.

**Deadlock** is not checked in `Sched`: the machine really stops when a program
waits for the network (finding 2 below), nor in `net` and `tcp_progress`, where
everything ends when TCP's connection is closed. In all other runs it is: a call,
a new run or a step of the device is always possible, and what is over says so
(`Returned`, `NoKey`).

**Fairness** (`sched`, `sched_http_hang`). `SF_vars(Tick)`: the local APIC keeps
a tick that arrives with IF clear and delivers it at the next instruction
boundary with IF set, so a program that makes call after call cannot outrun it
although IF is cleared again and again; weak fairness would allow that.
`WF_vars(SysCall(p))`: a call in progress, which nothing can interrupt, runs to
its end or to its first `hlt`. Nothing is assumed of what programs or kmain
choose to do. `EverySlotRuns` needs exactly these two, and excepts the halted
machine by name (`Wedged`).

**Fairness** (`tcp_progress`). The user goes on reading and `tcp_send` ends, by
its own timeout at the latest; the peer sends its oldest unacknowledged byte
again and again (its retransmission and persist timers); and of segments sent
again and again one gets through (strong fairness of the receipt of the oldest
byte and of a current acknowledgement). Nothing else is assumed to arrive, and
nothing is assumed of when the client retransmits.

## 4. The properties

* `SavedContexts`: a frame in the table belongs to a thread that has not exited,
  is held by one slot only and its `proc` is the slot's. Its violation is a
  context resumed twice, or a program run in another's address space.
* `SyscallContext`: a running program has its own address space and its own
  armed kernel stack, and while a call is under way the scratch word is its own.
* `FpuPreserved`: a thread that runs finds its own FPU values, except while
  kmain is still creating it (finding 1).
* `PanelNotLeaked`: if the compositor is parked, some live program asked for it.
  The converse does not hold: any program's exit or SYS_FBEND releases another
  program's claim.
* `NoResurrection`: no switch enters an exited or unborn thread, or an unused
  slot.
* `EverySlotRuns`: round robin.
* `Tiling`: the list covers the window, in order, byte for byte.
* `AllocSpec`: seen from its callers the heap is `HeapSpec`.
* `DiskMatches`: after a mutation saved by an undisturbed sync the disk holds
  exactly that tree, over any torn or older image, and keeps it when power goes.
* `SavedTreeAllOrNothing`: at boot such a tree comes back as it was, or as the
  seed or the bare root; never altered, never an older one.
* `DownSpec`, `UpSpec`: the user reads the peer's stream, and the peer the
  request, in order and once; the end of the stream is reported after its last
  byte and never for a reset.
* `AckedIsKept`: what the peer may forget is in the ring or with the user, also
  when the ring had room for part of a segment only.
* `SentIsReceived`: success of `tcp_send` means that the peer has it all, through
  late acknowledgements of earlier copies.
* `TreeOK`: each node but the one kmain is about to append is in exactly one
  list, once, its parent's, named from the root, and siblings differ in name.
* `DescriptorsCounted`: every file object is behind one descriptor and every
  /proc text behind one file object, but for those failing calls lost.
* `CwdOutlivesRm`: the current directory becomes a dangling pointer only when a
  directory above it is removed, or when `cmd_sandbox` takes up a removed one.
* `BinOnly`, `PaneHolds`: the Explorer frees only what is below a folder called
  `.trash`; its selection never dangles, nor its folder but by going back.
* `SoleOwner`, `OwnedIsUsed`: no frame is in two places, and what is referred to
  is not in the pool, until kmain's allocation is raced.
* `NoFrameLost`: a used frame is referred to, or was given up at one of the
  three places that give frames up; a fourth would show.
* `GrantedIsMapped`: what exec, brk and mmap granted stays mapped, raced or not,
  until the program lowers its break.
* `BehindByTimeouts`: what is outstanding is the command waited for and one
  more for every timeout there ever was. The queue never catches up, which is
  why a timeout poisons every later command.
* `ChunksMove`: a chunk that ends well moved its caller's data, as long as no
  command timed out and no program's call fell inside a chunk of kmain's.
* `LastGrantIsInstalled`: see 2.8; a late OFFER of a second server or a refusal
  read in the same poll as the acknowledgement is enough to break it, which is
  why `stray` is in it.
* `SavedIsSent`: a file saved is whole and the one offered under its name. It
  rests on facts about three parties at once: a chunk in flight is one the
  receiver has all predecessors of, and an acknowledgement means the chunk is in
  the buffer.
* `ReportIsTrue`: DONE is sent only when every chunk is acknowledged. Its
  mutant is a `last_ack` left over from the chunk before, which lets a sender
  run ahead.
* `FramesOnce`: of the card's frames none is lost, repeated, overtaken or
  overwritten in either ring, interrupts included, unless the handler drains
  inside kmain's work; then one descriptor is delivered twice, or a frame is
  overwritten on its way out.
* `ChainsApart`: all chains of the FAT32 volume are disjoint, as long as their
  entries say, and none of their clusters is free, however calls fail; but for
  the steps between which the code itself breaks this.
* `CountedAreOnline`: a late acknowledgement counts a processor in another's
  round, never one that does not run.
* `OwnPlace`: as long as no processor answers late, each has its stack and its
  slot to itself and in the end all that run are counted. A late one takes the
  next one's block: two processors then push onto one stack.
* `KeysOnce`: what was kept is what was handed over and what the ring holds.
* `AllRead`: reception has no timer of its own, so it goes on only because every
  repeated segment is answered and a closed window is probed.

## 5. Where the code and its documentation part

1. **`sched.c:122`.** `used = 1` precedes `fpu_init_area`. A tick between them
   starts the new thread with the FPU image of the slot's previous owner
   (`README.md:66-71`: state "never leaks between threads").
2. **`syscall.c:183`.** SYS_HTTPGET waits in `hlt` with IF clear: no interrupt
   can end it, and the machine stops (`include/syscall.h:33` promises a result
   or -1).
3. **`gui.c:2213`.** The desktop tests the flag, is preempted, and blits over a
   program that has claimed and painted the panel since (`syscall.c:95-98`:
   "there is no shared-VRAM race").
4. **`ramfs.c:419`.** Without any fault: a program's sync runs between two
   commands of kmain's, the image on disk is a mixture, its checksum is wrong,
   and the next boot formats the disk (`README.md:162-165`, `include/fs.h:43-47`:
   "files survive reboots").
5. **`nvme.c:130`.** `submit` takes the completion at `cq_head` by its phase bit
   alone. A program's SYS_OPEN or SYS_WRITE saves the file system while kmain
   waits in `hlt` with IF set, and takes kmain's completion (`nvme.c:115-116`:
   "the lone outstanding completion is consumed exactly once").

6. **`fat32.c:316`.** `resolve` gives the root directory's cluster for an entry
   whose first cluster is 0. That is right for `..`, but it is also how a PC
   stores an empty file: writing over one frees the root directory's chain
   (`fat32.c:314`: "free old data"; `kernel/main.c:196-198`: the volume
   "interoperates with Windows/Linux").

7. **`cmd_net.c:409`.** A receiver that is busy accepts every further offer of
   the same machine without comparing its name or size, and no packet says which
   transfer it belongs to. If the ACCEPTs of a first offer are lost, the sender
   gives up and offers another file: the receiver saves the second file's
   chunks, cut to the first one's size, under the first one's name, and both
   machines report success (`cmd_net.c:329-331`: "a simple stop-and-wait
   reliable protocol over UDP").

Modelling also showed the following, which no line of the repository denies and
no run refutes: any folder named `.trash` acts as a bin, not only `/.trash`
(`app_files.c:215`); the Explorer's clipboard and history keep pointers to
purged nodes; copying a folder into itself recurses without end, since only a
cut is guarded (`app_files.c:304`, although 243 says the test guards pasting);
`brk` may go below `brk_start`; nothing frees a program's frames; a DHCPNAK is
read like any reply and replaces the offered address by zero; `fat32_write` to a
name that `to_short` shortens never finds the file again and adds an entry each
time; on a full volume it has lost the old file before it finds out; the
keyboard ring's comment (`keyboard.c:37`) knows one producer and one consumer,
but USB polling and SYS_GETKEY are a second of each.

## 6. The proofs

All theorems hold for every value of the constants allowed by the module's
named assumption (`SchedAssumption`, `HeapAssumption`, `ImageAssumption`, `MemAssumption`,
`DhcpAssumption`, `SmpAssumption`, `ShareAssumption`, `FilesAssumption`,
`KeysAssumption`, `E1000Assumption`, `NvmeAssumption`, `TcpAssumption`, `FatAssumption`),
which say no more than that kinds of values are distinct, sizes are positive,
regions of the address space are in order and every page's walk begins at the
root table. `FilesAssumption` adds that nodes and programs are finitely many;
`FatAssumption` that clusters are, and that the 8.3 name of an 8.3 name is that
name, as `to_short` has it; `TcpAssumption` that the request is not empty and that the sequence
numbers are more than twice as many as a connection of the model uses, as 2^32
is.

**CpuProofs, Sched.** `IInv` is inductive and implies every safety property of the
module. What the properties lack, and `IInv` adds, is a description of the
moments in between:

* `SlotZero`: slot 0 is always kmain's. This is why the scan of `schedule`
  finds a used slot (`ScanFindsUsed`), the one arithmetical argument.
* `Seated`, `Retired`: a thread that can go on sits in a used slot; the current
  slot is unused only while the exited thread is parked on it.
* `Adding`: the slot `sched_add` picked stays unused, and is not the current
  one, until it is published; then it is the new thread's until that exits.
  This is why it is harmless that `slot_alloc` and `used = 1` are far apart:
  only kmain allocates slots.
* `FpuSaved`: every waiting slot but the one being created holds its thread's
  FPU values.
* `PanelInv`: the flag is set only while some claimant is alive.

One lemma per action shows that it preserves `IInv`; the tick has the longest.
The theorems are `TypeCorrect`, `ContextsSafe`, `CallsKeepContext`, `FpuKept`,
`PanelComesBack` and `NoneResurrected`.

**MemProofs, KHeap.** `TypeOK /\ Tiling` is inductive: a split or an absorption only
moves one boundary, and `next` is determined by where a block ends
(`HeapTiled`). From it every step of the list is a step of `HeapSpec` or leaves
the live allocations alone (`HeapImplementsAllocator`): the new block lies
inside a free one, and blocks do not overlap.

**DiskProofs, BfsImage.** The inductive invariant adds to `DiskMatches` the state of a
sync under way: while kmain writes undisturbed, the first `kpos` pieces on the
disk are those of its image, and the image is the tree in memory. `TypeCorrect`,
`SavedTreeIsOnDisk` and, from the same invariant, the action property
`SavedTreeComesBack`.

**MemProofs, UserMem.** `MemInv` is `MemTypeOK`, `JobsOK`, `MapsOK`,
`GrantedIsMapped` and, until the race, `OwnOK`. `JobsOK` says where a job stands:
whose space it builds, that it is inside its range, that a frame it picked or
holds belongs to a page it still has to map; `MapsOK` that everything before its
place is mapped, that a space nobody has is empty, and that above `mmap_cur`
only a failed mmap leaves pages; `OwnOK` joins `SoleOwner`, `OwnedIsUsed` and
`NoFrameLost`, which are inductive only together.
Every action changes the places that refer to frames in one of four ways, each a
lemma: a free frame goes to an empty place (`Grows`), a frame moves from one
place to another (`Shifts`), some places let go (`Drops`), nothing changes
(`Stays`). So the argument about owners is made once per way and not once per
action. `KTake` keeps `OwnOK` only because the bit was still clear; otherwise
`raced` is set. Theorems `MemTypes`, `FramesHaveOneOwner`, `OwnedFramesAreUsed`,
`FramesAreNotLost`, `GrantsAreMapped`.

**NetProofs, Dhcp.** `DhcpInv` is `DhcpTypeOK`, `RingOK` (an acknowledgement in the
ring is of what its run asked), `AskedOK` (a run asks nothing before its first
wait is over) and, until a stray reply, `RunOK`, which says of the run in
progress what it can go back to, that what it asked is the offer in hand, and
that an acknowledgement it has read makes it a granted one. Theorems
`DhcpTypes`, `LeaseWasGranted`.

**CpuProofs, Smp.** `Base` (types, what the round has prepared, who is still off)
holds whoever answers late. On it rest two arguments. `Counted`: the processors
counted, and the one whose acknowledgement is up and about to be counted, are no
more than those in `idle`; every acknowledgement comes from another one, and
clearing the flag only forgets some. `OwnOK`, as long as nobody is late: only the
processor of the round is on its way and the flag is its own (`NowOK`), nobody
else has the last stack (`StacksOK`), the slots below `idx` belong to earlier
rounds (`SlotsOK`), and `online` is ahead of the count by that processor at most.
Being late does not end (`LateStaysLate`), so the condition can be carried from a
step's end to its beginning. Theorems `SmpTypes`, `NoneCountedIdly`,
`EachHasItsPlace`.

**NetProofs, Share.** `ShareInv` is `ShareTypeOK` and, until packets are mixed up,
`Core`. `HasGot(i, n)` says that transfer i has its first n chunks in the
receiver's buffer or is over there; every claim of the invariant is in its
terms: what a packet under way tells (`PacketOK`: a chunk's predecessors are
there, an acknowledged chunk is, at DONE all are), what a sender knows
(`SenderOK`), what was reported (`ReportedOK`); `RecvOK` joins it to the buffer
itself. No step makes `HasGot` false (`ShareForward`), so whatever packets are lost,
late or repeated keep telling the truth, and a step has to be looked at only for
the one packet it sends and the one party it changes (`SenderMoves`,
`ReceiverMoves`). Theorems `ShareTypes`, `SavedFilesAreWhole`,
`ReportsAreTrue`.

**FilesProofs.** `Below` and `Above` are walks, a recursive function that adds
what is next of what it has, as many rounds as there are nodes. The library's
induction theorems need an operator as a parameter; `Climb` states induction of a
set instead, from the least-element fact the library proves of well-founded
relations, and is enough here: what is reached is the least set closed under the
edges (`WalkLeast`, `WalkClosed`; the second counts, since a walk that grew in
every round would outgrow the nodes). All later lemmas use only that. These
lemmas are in WalkProofs; `Chain` of `Fat32` is a walk too.

`FilesInv` is inductive. Its heart is `Forest`: the child lists are lists of
nodes with that parent and different names (`Tree`); the append kmain is about to
do has a node in no list and an old list that is still without its name, and what
the store will cut off are files without children (`LinkIn`); and until something
is cut off every node is named or hangs on that append, and is in its parent's
list (`WholeIn`). `LinkIn` is what `TreeOK` lacks: the duplicate name was excluded
when kmain started, and a program's file of that name in between is cut off.
`HeldIn` are the nodes kmain may refer to, those named and those hanging on the
append, except what it will cut off: with it, what kmain refers to is allocated or
`Freed` even after files have been lost. `SelIn` puts the Explorer's selection
below the folder it shows; without it, a delete would have to be shown harmless
for a selection anywhere. Each operation is described once, by what the new tree
has of the old one (`Moves`, `Adds`, `Hangs`, `Prunes`), then shown to keep
`Forest` (`MoveKeeps`, `CreateKeeps`, `OpenNewKeeps`, `LinkKeeps`,
`RemoveKeeps`). `FdsInv` needs that a program that does not run has nothing open,
or an exec would overwrite descriptors that count. Theorems `FilesInvariant`,
`FilesTyped`, `TreeIsOne`, `ObjectsCounted`, `SelectionHolds`, `CwdHolds`,
`PurgesTheBin`: all that the runs check of `Files`.

**RingProofs.** The keyboard ring and the two descriptor rings rest on one small
theory of rings of n places. `Window` is what lies from one place up to another,
as a sequence; what is stored behind a window ends it, unless the place after is
where the window begins (`Pushed`), what is taken from its front follows what was
taken before (`Popped`), and a store elsewhere does not change it (`OtherSlots`). The
remainders appear only in `RoundIs`, `GapIs` and `PlaceIs`.

`KeysInv` is the types and, until an end was crossed, `KeysOnce` with `KeysEnds`:
what kmain has loaded of the ring in earlier steps still is so. `KeysOnce` alone
is not inductive, because the second half of kmain's push would be free to go into
a full ring.

`CardInv` has three parts. `CardTypes` adds to the types that a frame that is
there has a number, and that there is room for the frame kmain is about to put
together. `RxOK`, until the handler has drained under kmain's hands, ties the
card's tail, the statuses and kmain's place in `rx_drain` together: the tail is
one before the first descriptor in use (`RxBase`), the descriptors in use are those
with a frame, except for the one whose status is cleared and which is not given
back, and what was handed over and the window from `First` are all that was
taken. `TxOK`, as long as the ring was not full either, says the same of what is
sent, with the frame that sits in `txframe` or in a slot that is not posted yet
left out of the count. `Grown` and `Shrunk` say how the set of places in use
changes when an end moves on. Theorems `KeysComeOnce`, `E1000Types` (which needs
no condition), `FramesComeOnce`.

**TcpProofs.** Every claim about a sequence number is one about its distance from
the first of its stream (`Off`); remainders appear only in `PlusIs`, `OffIs` and
`OffPlus`, so nothing depends on where the numbers wrap. `From(s, b)` says that s
counts on from b; both streams are described by it and never by their bytes.

`TcpInv` is the types, `HandOK` (before the handshake is over nothing else has
happened), `StreamOK` (what was read and what the ring holds are the first bytes
the peer wrote; `rcv_nxt` stands behind them, and behind the FIN once it is seen;
what is acknowledged is no more), `SendOK` (the peer has the first chunks of the
request; `snd_una` is no further than that; `tcp_send` waits for the number
behind its chunk) and what every segment under way says (`DownOK`, `UpOK`). The
properties lack the last: that an acknowledgement on its way tells what the other
side has, and that a segment carries the bytes of its place. Both stay true
however late it arrives, because what they are about only grows (`Forward`,
`DownStays`, `UpStays`). So a step is looked at for the one segment it sends, and
loss, repetition and reordering need no argument of their own. `Taken` is the
heart of `tcp_input`: bytes are taken only before the FIN has been seen, and the
FIN counts only when it completes what the peer wrote.

The comparison of sequence numbers in `NewUna` (the signed difference) is not used
at all: wherever `snd_una` goes, the number came in a segment, so the peer has
what is before it. What the comparison is for is progress.

Each direction implements `ByteStream` (`DownStep`, `UpStep`). Theorems `TcpTypes`,
`AckedStaysKept`, `RequestArrives`, `RecvIsAStream`, `SendIsAStream`.

**DiskProofs, Nvme.** `NvmeInv` is `NvmeTypeOK` and, until a program's call has
clashed with a chunk of kmain's, `Undisturbed`: only one caller is within a chunk
(`Alone`), a caller waits at `cq_head` (`WaitsAtHead`), and `PhaseOK` says which
entries carry the phase bit of the controller's present turn and which turn
`cq_head` is in. From it the phase `submit` looks for is found exactly where a
completion is posted and not taken (`PhaseTells`); no bound on the turns is needed.
`BehindByTimeouts` then is inductive: a completion taken is one less waited for
and one less outstanding, and the ring has room for the next command as long as
fewer than `Depth - 1` have timed out. `ChunkOK` follows a chunk while none has:
its command is rung (`Rung`), worked on (`Worked`) or completed (`Posted`); since
only one thing is outstanding, the completion taken is its own. So the theorem
`OwnUntilDisturbed` says how far the comment refuted by finding 5 reaches.
Theorems `NvmeTypesHold`, `QueueIsBehindByTimeouts`, `ChunksMoveTheirData`,
`OwnUntilDisturbed`.

**DiskProofs, Fat32.** `ChainsApart` says nothing while a call is in the middle of
its writes; the inductive invariant must. `FatInv` is `FatTypeOK` and, until the
volume is hurt, `Safe`, which judges the volume as the call in progress will leave
it (`After`): while old clusters are being freed, and entries marked, without the
entries it will mark; while a directory has a cluster that is not written yet,
with that cluster blank. Of that volume `Sound` says what `ChainsApart` says, and
`OpFine` what the call has in hand: the chain built so far is whole, of the length
counted, and nobody's (`Built`), a cluster just allocated belongs to nothing
(`New`), `prev` ends the chain it will be linked to (`EndOf`).

What happens to a volume is one of four things, each a lemma: clusters out of use
change (`OffUsed`), entries go (`Fewer`), an entry is put at a vacant place
(`Put`), a directory gets a blank cluster (`Grow`). They rest on how chains change
when one FAT entry does (`ChainAgrees`, `ChainUnfolds`, `ChainGrows`). A FAT may
have cycles while the volume is hurt; the walks of the model end all the same, and
`FirstNamedIs` shows that the entry `find_cb` returns is among them. The one fact
about names used is that an entry with clusters has an 8.3 name, so the entry
whose chain is freed, found by the name given, is among those that will be
marked, found by the 8.3 name (`DropFits`). Theorems `FatTypesHold`, `ChainsStayApart`.

**NetProofs and MemProofs, the instances.** Two of the three instances in which
TLC explores several parts are linked to the parts' specifications by theorems
(`NetIsItsParts`, `ListsAreTheirParts`): what is proved of a part is true of what
is run. Theorems `NetTypes`, `ListsTypes` follow from those of the parts. The
third, `MCParts`, has the same shape, and its properties are those of its parts.

**Model-checked only.** `EverySlotRuns` and `AllRead`, since liveness under
fairness is outside the prover's reach. The seven refuted statements are left to
TLC too; for finding 5, `OwnUntilDisturbed` says how far the comment is true.

## 7. What is left

In this order:

1. **E1000 under Tcp**: what the handler's drain on 8259 machines does to the
   rewinds of `tcp_send`; the ARP cache; link changes.
2. **Nvme under BfsImage**: a command of `BfsImage` as an abstraction of
   `nvme_rw`, with the stolen completion among its faults.
3. **KHeap under preemption**: a second next-state relation in which kmain's
   call is several steps.
4. The connection table of TCP, ports reused while old segments are in flight;
   discovery of receivers in `share`.

## 8. Not modelled

Device register programming (ATA, AHCI, xHCI's rings, the mouse, audio, display)
is I/O without shared state of the kernel's own; EXT2 is only read; what a failing disk command does is in
`BfsImage`. Cryptography, TLS and X.509 are arithmetic on large numbers and byte
formats, sequential, better tested with vectors. The browser engine, the
interpreters, the applications and the shell compute sequentially on kmain.
Boot loaders run before anything is concurrent. Vendored libraries and the
ported game are other people's programs. `PROJECT.json` gives the reason for
each component.
