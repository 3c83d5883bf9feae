---------------------------- MODULE LibraryParts ----------------------------
(***************************************************************************)
(* The traffic of a message queue, the signals of a thread, shared memory  *)
(* objects, the network databases, socket addresses, files, and getopt.    *)
(* They share no state, and no step of one is a step of another: part says *)
(* which of them moves.  Two modules of conversions have no state.         *)
(***************************************************************************)
EXTENDS Integers, Sequences, FiniteSets

CONSTANTS
    Threads, MaxMsg, MaxSends, MaxNotes,                    \* MqTraffic
    RtMax, SetBits, Sigs, MaxHandled,                       \* Signals
    Callers, Names, ShmObjs, Fds, Regions, IntMax, Kept,    \* Shm
    Parsed, Streams, Keys,                                  \* Netdb
    SizeOf, Storage, ScopeMod, PathMax, Addresses,          \* Sockets
    Listing, NameMax, LockMax, RangeEnd,                    \* Files
    Alnum, Argvs, OptString, LongOpts,                      \* Getopt
    NsPerMs, MsPerSec, TimeoutMax, TimeLimit, AddrStrLen, Word,        \* Convert, Objects
    NULL

\* mq_open refuses a queue that holds no message (mqueue.c, l.86).
ASSUME MqAssumption == MaxMsg \in Nat \ {0}

\* A sigset_t has a bit for every signal (posix_signal.h, l.103).
ASSUME SignalsAssumption ==
    RtMax \in Nat /\ SetBits \in Nat /\ SetBits >= 34 + RtMax /\ Sigs \subseteq Nat

\* INTPTR_MAX is not less than the sizes that are asked for, the descriptor table
\* is an array, and NULL is nothing else.
ASSUME ShmAssumption ==
    /\ IntMax \in Nat /\ IntMax >= 2
    /\ IsFiniteSet(Fds)
    /\ NULL \notin ShmObjs \cup Fds \cup Regions \cup Names

\* A database has some number of lines, and fopen does not return NULL.
ASSUME NetdbAssumption ==
    /\ NULL \notin Streams
    /\ \A db \in DOMAIN Parsed : /\ Len(Parsed[db]) \in Nat
                                /\ \A i \in 1..Len(Parsed[db]) : Parsed[db][i].ok \in BOOLEAN

\* Sizes, paths and scopes are unsigned, and every address fits a sockaddr_storage.
ASSUME SocketsAssumption ==
    /\ Storage \in Nat /\ ScopeMod \in Nat \ {0}
    /\ PathMax["posix"] \in Nat /\ PathMax["zephyr"] \in Nat
    /\ Addresses \subseteq [family : STRING, scope : Nat, path : Nat, as : {"both"}]
    /\ \A a \in Addresses : /\ SizeOf["posix"][a.family] \in 0..Storage
                             /\ SizeOf["zephyr"][a.family] \in Nat

\* A file has some number of bytes.
ASSUME FilesAssumption == RangeEnd \in Nat

\* Arguments are strings, which end at their first NUL; no option is called "-", and
\* none has a value that getopt returns for something else.
ASSUME GetoptAssumption ==
    /\ Argvs \subseteq Seq(Seq(STRING \ {"NUL"}))
    /\ OptString \in Seq(STRING)
    /\ LongOpts \in Seq([name : Seq(STRING), val : STRING, flag : BOOLEAN,
                         has_arg : {"no_argument", "required_argument", "optional_argument"}])
    /\ \A r \in {"-", "NUL", "-1", "?", ":", "go on", "undefined"} :
          r \notin Alnum /\ \A k \in 1..Len(LongOpts) : LongOpts[k].val # r

\* There are nanoseconds in a millisecond and milliseconds in a second, a timeout
\* is unsigned (K_MSEC of a uint32_t), and a handle is not empty.
ASSUME ConvertAssumption ==
    /\ NsPerMs \in Nat \ {0} /\ MsPerSec \in Nat \ {0} /\ Word \in Nat \ {0}
    /\ TimeoutMax \in Nat /\ TimeLimit \in Nat \ {0}

VARIABLES part,
    buf, waitq, nonblock, not, notes, call, received, hist, missed, fault, habit,
    signo, ks, sigCall, sigSeen,
    shm, fdt, pages, maps, shmCall,
    netdb, answer, walked,
    layout, sock, said, got,
    flags, file, object, told, ret, dir,
    argv, how, opt, result, seen

Mq == INSTANCE MqTraffic WITH got <- received
Sig == INSTANCE Signals WITH libc <- signo
Shm == INSTANCE Shm
Net == INSTANCE Netdb
Soc == INSTANCE Sockets
Fil == INSTANCE Files WITH libc <- flags
Opt == INSTANCE Getopt
Reads == INSTANCE GetoptSpec WITH Shorts <- Opt!optmask, WithArg <- Opt!argmask,
    Complaint <- Opt!Complaint, pos <- Opt!Position
Con == INSTANCE Convert
Obj == INSTANCE Objects

ofMq == <<buf, waitq, nonblock, not, notes, call, received, hist, missed, fault, habit>>
ofSig == <<signo, ks, sigCall, sigSeen>>
ofShm == <<shm, fdt, pages, maps, shmCall>>
ofNet == <<netdb, answer, walked>>
ofSoc == <<layout, sock, said, got>>
ofFil == <<flags, file, object, told, ret, dir>>
ofOpt == <<argv, how, opt, result, seen>>
partsVars == <<ofMq, ofSig, ofShm, ofNet, ofSoc, ofFil, ofOpt, part>>

PartsInit ==
    /\ Mq!Init /\ (part # "mq" => habit = "serial")
    /\ Sig!Init /\ (part # "signals" => signo = "minimal" /\ ks.user)
    /\ Shm!Init
    /\ Net!Init
    /\ Soc!Init /\ (part # "sockets" => layout = "same")
    /\ Fil!Init /\ (part # "files" => flags = "same")
    /\ (part # "getopt" => how = "getopt" /\ argv = CHOOSE v \in Argvs : TRUE) /\ Opt!Init

PartsNext ==
    \/ part = "mq" /\ Mq!Next /\ UNCHANGED <<ofSig, ofShm, ofNet, ofSoc, ofFil, ofOpt, part>>
    \/ part = "signals" /\ Sig!Next /\ UNCHANGED <<ofMq, ofShm, ofNet, ofSoc, ofFil, ofOpt, part>>
    \/ part = "shm" /\ Shm!Next /\ UNCHANGED <<ofMq, ofSig, ofNet, ofSoc, ofFil, ofOpt, part>>
    \/ part = "netdb" /\ Net!Next /\ UNCHANGED <<ofMq, ofSig, ofShm, ofSoc, ofFil, ofOpt, part>>
    \/ part = "sockets" /\ Soc!Next /\ UNCHANGED <<ofMq, ofSig, ofShm, ofNet, ofFil, ofOpt, part>>
    \/ part = "files" /\ Fil!Next /\ UNCHANGED <<ofMq, ofSig, ofShm, ofNet, ofSoc, ofOpt, part>>
    \/ part = "getopt" /\ Opt!Next /\ UNCHANGED <<ofMq, ofSig, ofShm, ofNet, ofSoc, ofFil, part>>

PartsSpec == PartsInit /\ [][PartsNext]_partsVars

-----------------------------------------------------------------------------
(* The properties of each part, where that part moves *)

\* A message whose mq_send returned 0 is in the queue or was received, once, and one
\* whose call failed was and is in neither (send_message, mqueue.c).
SendsTellTheTruth == part = "mq" => Mq!SendsTellTheTruth

\* The messages of one thread are received in the order it sent them (mqueue.c).
SenderOrderKept == part = "mq" => Mq!SenderOrderKept

\* With calls that do not overlap, every arrival on an empty queue is notified, and
\* no function that was unregistered is called (send_message, mq_notify).
SerialArrivalNotifies == part = "mq" => Mq!SerialArrivalNotifies

\* Every arrival on an empty queue is notified, however calls overlap (mq_notify).
ArrivalNotifies == part = "mq" => Mq!ArrivalNotifies

\* pause and sigsuspend return for a handler that ran since they were entered or for
\* the signal of cancellation, which the kernel counts, and for nothing else (signal.c).
SuspendMissesNothing == part = "signals" => Sig!SuspendMissesNothing

\* Actions read back as they were set, and waits answer with a signal of their set,
\* although the kernel numbers signals differently (signal.c, z_sig_set.c).
SignalsKeepTheirMeaning == part = "signals" => Sig!SignalsKeepTheirMeaning

\* Descriptors, names, objects and the memory of shared memory objects agree, if
\* the program keeps to the rules (shm.c, mmap.c).
KeptShmIsSound == part = "shm" => Shm!KeptShmIsSound

\* The streams of the databases are neither lost nor shared, and enumerations and
\* searches find the entries that they should (netdb_ent.c).
NetdbIsSound == part = "netdb" => Net!NetdbIsSound

\* A socket address comes back as the program gave it, and is written past the end
\* of no buffer that has room for its structure (conversion.h).
AddressesSurvive == part = "sockets" => Soc!AddressesSurvive

\* What fcntl returns is what the program set, in its own numbers, and the record
\* locks of a file are those that the program asked for last (fcntl.c).
FcntlReadsBack == part = "files" => Fil!FcntlReadsBack

\* Each call of getopt reports the option at the position that optind, optind_prev and
\* nextchar_idx stand for, with its argument, and moves that position as GetoptSpec says
\* and no further, or complains of the option and stays (zephyr_getopt.c).
GetoptReadsOn ==
    /\ part = "getopt" => Reads!Init
    /\ [][part = "getopt" => Reads!Next]_(Reads!readsVars)
=============================================================================
