------------------------------- MODULE Startup -------------------------------
(***************************************************************************)
(* How its arguments reach a program: liblazer packs them (process.rs),    *)
(* the system call checks the buffers (syscall.rs, memory/user.rs), the    *)
(* loader lays them out at the top of the new stack (memory/loader.rs) and *)
(* the child's runtime reads them back (runtime.rs).  A program may also   *)
(* call the kernel with bytes of its own making.                           *)
(*                                                                         *)
(* Bytes are numbers; a usize has Word of them, the lowest first.  That    *)
(* the file is found and loads is left to Lash and AddressSpaces.          *)
(***************************************************************************)
EXTENDS Integers, SequencesExt

CONSTANTS
  Word,          \* bytes of a usize
  AddressLimit,  \* addresses of the machine
  ImageBase,     \* USER_IMAGE_BASE
  StackBase,     \* USER_STACK_TOP less the pages of the stack
  StackTop,      \* USER_STACK_TOP
  MaxArgs,       \* MAX_STARTUP_ARGS
  MaxPayload,    \* MAX_SPAWN_ARG_DATA
  Executables,   \* normalized paths of programs
  ArgumentLists, \* what programs pass to spawn_wait
  RawCalls       \* what programs pass to the kernel themselves

(* A range of memory as a call names it, with the bytes that lie there.    *)
Buffers == [at : Int, bytes : Seq(Nat)]

Nul == 0
NoText == 255   \* stands for the bytes that are no UTF-8
IsUtf8(s) == ~Contains(s, NoText)

(* A number without its lowest byte, without its two lowest, and so on;    *)
(* the bytes that a usize does not hold are the last of them.              *)
Shifted(number) ==
  LET shifted[k \in 0..Word] == IF k = 0 THEN number ELSE shifted[k - 1] \div 256
  IN  shifted

(* An address fits a usize; liblazer's buffer fits the stack.  Paths and   *)
(* arguments are &str to liblazer, and a path lies whole in the image.     *)
ASSUME StartupAssumption ==
  /\ Word \in Nat \ {0} /\ MaxArgs \in Nat \ {0} /\ MaxPayload \in Nat
  /\ {ImageBase, StackBase, StackTop, AddressLimit} \subseteq Nat
  /\ 0 < ImageBase /\ ImageBase < StackBase /\ StackBase < StackTop /\ StackTop < AddressLimit
  /\ StackTop % (2 * Word) = 0 /\ Shifted(StackTop)[Word] = 0
  /\ MaxPayload <= StackTop - StackBase
  /\ Executables \subseteq Seq(Nat) /\ ArgumentLists \subseteq Seq(Seq(Nat))
  /\ \A path \in Executables :
       IsUtf8(path) /\ ~Contains(path, Nul) /\ Len(path) <= StackBase - ImageBase
  /\ \A args \in ArgumentLists : \A i \in DOMAIN args : IsUtf8(args[i])
  /\ RawCalls \subseteq [path : Buffers, args : Buffers]

VARIABLES
  step,     \* "parent", "syscall", "load", "child", "reading" or "ended"
  given,    \* the arguments, if liblazer packed them
  call,     \* the system call: where the path and the arguments lie, and what they are
  stack,    \* the child's stack by address, once there is one
  sp,       \* user_stack_top of the LoadedUserProgram
  argv,     \* STARTUP_ARGS of the child
  seen,     \* what args() gave so far
  verdict   \* "none", "ran", or the error
startupVars == <<step, given, call, stack, sp, argv, seen, verdict>>

(* Each argument followed by a NUL.                                        *)
Packed(args) == FlattenSeq([i \in DOMAIN args |-> Append(args[i], Nul)])
Empty == [at |-> 0, bytes |-> <<>>]
NotPacked == [packed |-> FALSE, args |-> <<>>]

StartupInit ==
  /\ step = "parent" /\ verdict = "none"
  /\ given = NotPacked /\ call = [path |-> Empty, args |-> Empty]
  /\ stack = <<>>
  /\ sp = 0 /\ argv = [argc |-> 0, at |-> 0] /\ seen = <<>>

Ends(v) ==
  /\ step' = "ended" /\ verdict' = v
  /\ UNCHANGED <<stack, sp, argv, seen>>

-----------------------------------------------------------------------------
(* serialize_spawn_args, argument by argument.                             *)
Serialize(args) ==
  LET packed[n \in 0..Len(args)] ==
        IF n = 0 THEN [bytes |-> <<>>, error |-> "none"]
        ELSE LET b == packed[n - 1]
                 arg == args[n]
             IN  IF b.error # "none" THEN b
                 ELSE IF Contains(arg, Nul) THEN [b EXCEPT !.error = "InvalidPath"]
                 ELSE IF Len(b.bytes) + Len(arg) + 1 > MaxPayload
                 THEN [b EXCEPT !.error = "ResourceUnavailable"]
                 ELSE [b EXCEPT !.bytes = @ \o Append(arg, Nul)]
  IN  packed[Len(args)]

(* spawn_wait: the payload lies on the caller's stack, the path anywhere   *)
(* in its image.                                                           *)
SpawnWait(path, args) ==
  LET payload == Serialize(args)
  IN  /\ step = "parent" /\ given' = [packed |-> TRUE, args |-> args]
      /\ IF payload.error # "none" THEN Ends(payload.error) /\ UNCHANGED call
         ELSE /\ call' = [path |-> [at |-> ImageBase, bytes |-> path],
                          args |-> [at |-> StackTop - MaxPayload, bytes |-> payload.bytes]]
              /\ step' = "syscall" /\ UNCHANGED <<stack, sp, argv, seen, verdict>>
CallKernel(c) ==
  /\ step = "parent" /\ call' = c /\ step' = "syscall"
  /\ UNCHANGED <<given, stack, sp, argv, seen, verdict>>

-----------------------------------------------------------------------------
(* validate_user_buffer; checked_add refuses what passes the last address. *)
ValidateWrapping(at, len) ==
  LET end == (at + len) % AddressLimit
  IN  \/ len = 0
      \/ /\ at >= ImageBase /\ end <= StackTop
         /\ ~(end > StackBase /\ at < StackBase)
ValidateUserBuffer(at, len) ==
  \/ len = 0
  \/ /\ at + len < AddressLimit
     /\ at >= ImageBase /\ at + len <= StackTop
     /\ ~(at + len > StackBase /\ at < StackBase)

Valid(buffer) == ValidateUserBuffer(buffer.at, Len(buffer.bytes))
SyscallSpawnWait ==
  /\ step = "syscall" /\ UNCHANGED <<given, call>>
  /\ IF ~Valid(call.path) \/ ~IsUtf8(call.path.bytes) THEN Ends("InvalidPath")
     ELSE IF ~Valid(call.args) THEN Ends("ResourceUnavailable")
     ELSE step' = "load" /\ UNCHANGED <<stack, sp, argv, seen, verdict>>

-----------------------------------------------------------------------------
AlignDown(n, unit) == (n \div unit) * unit

(* The tail is cut at its NULs.                                            *)
Split(tail) ==
  LET cut[n \in 0..Len(tail)] ==
        IF n = 0 THEN [args |-> <<>>, rest |-> <<>>]
        ELSE LET c == cut[n - 1]
             IN  IF tail[n] = Nul THEN [args |-> Append(c.args, c.rest), rest |-> <<>>]
                 ELSE [args |-> c.args, rest |-> Append(c.rest, tail[n])]
  IN  cut[Len(tail)].args

(* prepare_startup_layout: the strings end at the top of the stack, argv   *)
(* with its null pointer lies below them, argc below argv.                 *)
StringsStart(args) == StackTop - Len(Packed(args))
PointersStart(args) == AlignDown(StringsStart(args) - (Len(args) + 1) * Word, Word)
StackStartWithoutArgc(args) == AlignDown(PointersStart(args), 2 * Word)
StackStart(args) == AlignDown(PointersStart(args) - Word, 2 * Word)
RefusedUnterminated(argv0, tail) ==
  LET args == <<argv0>> \o Split(tail)
  IN  \/ \E i \in DOMAIN args : ~IsUtf8(args[i]) \/ (i > 1 /\ args[i] = <<>>)
      \/ StackStart(args) < StackBase
Refused(argv0, tail) ==
  LET args == <<argv0>> \o Split(tail)
  IN  \/ \E i \in DOMAIN args : ~IsUtf8(args[i]) \/ (i > 1 /\ args[i] = <<>>)
      \/ Contains(argv0, Nul)
      \/ tail # <<>> /\ Last(tail) # Nul
      \/ Len(args) > MaxArgs
      \/ StackStart(args) < StackBase

(* write_startup_arguments into zeroed pages: strings, argc, argv, null.    *)
Written(args) ==
  LET strings == StringsStart(args)
      pointer == [i \in DOMAIN args |-> strings + Len(Packed(SubSeq(args, 1, i - 1)))]
      words == <<Len(args)>> \o pointer \o <<0>>
      base == StackStart(args)
  IN  [a \in StackBase..(StackTop - 1) |->
         IF a >= strings THEN Packed(args)[a - strings + 1]
         ELSE IF a \in base..(base + Len(words) * Word - 1)
         THEN Shifted(words[((a - base) \div Word) + 1])[(a - base) % Word] % 256
         ELSE 0]

(* Every error of the loader is InvalidExecutable to the caller.           *)
LoadUserProgram ==
  LET args == <<call.path.bytes>> \o Split(call.args.bytes)
  IN  /\ step = "load" /\ UNCHANGED <<given, call>>
      /\ IF Refused(call.path.bytes, call.args.bytes) THEN Ends("InvalidExecutable")
         ELSE /\ stack' = Written(args) /\ sp' = StackStart(args)
              /\ step' = "child" /\ verdict' = "ran"
              /\ UNCHANGED <<argv, seen>>

-----------------------------------------------------------------------------
(* The bytes of a word, the highest first.                                 *)
ReadWord(at) ==
  LET word[k \in 0..Word] == IF k = 0 THEN 0 ELSE 256 * word[k - 1] + stack[at + Word - k]
  IN  word[Word]
(* c_string_len and the bytes before the NUL.                              *)
CString(at) ==
  SubSeq([i \in 1..(StackTop - at) |-> stack[at + i - 1]], 1,
         Min({n \in 0..(StackTop - at - 1) : stack[at + n] = Nul}))

(* __liblazer_initialize.                                                  *)
Initialize ==
  /\ step = "child" /\ step' = "reading"
  /\ argv' = [argc |-> ReadWord(sp), at |-> sp + Word]
  /\ UNCHANGED <<given, call, stack, sp, seen, verdict>>
(* Args::next, until it gives None.                                        *)
NextArg ==
  /\ step = "reading" /\ Len(seen) < argv.argc
  /\ LET arg == CString(ReadWord(argv.at + Len(seen) * Word))
     IN  IF IsUtf8(arg) THEN seen' = Append(seen, arg) /\ UNCHANGED step
         ELSE step' = "ended" /\ UNCHANGED seen
  /\ UNCHANGED <<given, call, stack, sp, argv, verdict>>
EndOfArgs ==
  /\ step = "reading" /\ Len(seen) >= argv.argc /\ step' = "ended"
  /\ UNCHANGED <<given, call, stack, sp, argv, seen, verdict>>

StartupNext ==
  \/ \E path \in Executables, args \in ArgumentLists : SpawnWait(path, args)
  \/ \E c \in RawCalls : CallKernel(c)
  \/ SyscallSpawnWait \/ LoadUserProgram
  \/ Initialize \/ NextArg \/ EndOfArgs

-----------------------------------------------------------------------------
(* What spawn_wait can carry: no NUL, few enough arguments, short enough   *)
(* for liblazer's buffer and for the stack.                                *)
Carried(path, args) ==
  /\ \A i \in DOMAIN args : ~Contains(args[i], Nul)
  /\ Len(args) < MaxArgs /\ Len(Packed(args)) <= MaxPayload
  /\ StackStart(<<path>> \o args) >= StackBase

(* A child that runs reads its own path and then exactly the arguments its *)
(* parent passed, each one, in order and whole, whatever bytes the parent  *)
(* made the call from; and a list spawn_wait can carry is never refused,   *)
(* unless it has an empty argument: lash's parser keeps those and          *)
(* prepare_startup_layout refuses them.                                    *)
ArgumentsReachChild ==
  step = "ended" =>
    /\ verdict = "ran" =>
         /\ seen # <<>> /\ Head(seen) = call.path.bytes
         /\ Packed(Tail(seen)) = call.args.bytes
         /\ given.packed => Tail(seen) = given.args
    /\ given.packed /\ verdict # "ran" =>
         <<>> \in Range(given.args) \/ ~Carried(call.path.bytes, given.args)

(* The block a program starts on has the layout the runtime's _start and   *)
(* the ABI of C rely on: a stack pointer on a double word with argc at it, *)
(* argc pointers into the strings above and a null pointer after the last, *)
(* all inside the stack, nothing on top of another.                        *)
StartupBlockSound ==
  verdict = "ran" =>
    LET argc == ReadWord(sp)
        pointer(k) == ReadWord(sp + k * Word)
    IN  /\ sp % (2 * Word) = 0 /\ sp >= StackBase
        /\ argc \in 1..MaxArgs
        /\ pointer(argc + 1) = 0
        /\ \A k \in 1..argc :
             /\ pointer(k) >= sp + (argc + 2) * Word /\ pointer(k) < StackTop
             /\ k > 1 => pointer(k) = pointer(k - 1) + Len(CString(pointer(k - 1))) + 1
        /\ pointer(argc) + Len(CString(pointer(argc))) + 1 = StackTop

Touched(buffer) == {(buffer.at + i - 1) % AddressLimit : i \in DOMAIN buffer.bytes}
(* The kernel reads no byte outside the user's half of the address space,  *)
(* and no buffer that runs into the stack from below, through any pair of  *)
(* address and length that it accepts.                                     *)
BuffersInUserSpace ==
  step \notin {"parent", "syscall"} /\ verdict \in {"none", "ran"} =>
    \A buffer \in {call.path, call.args} :
      \/ Touched(buffer) \subseteq ImageBase..(StackBase - 1)
      \/ Touched(buffer) \subseteq StackBase..(StackTop - 1)
=============================================================================
