------------------------------- MODULE Device -------------------------------
(* The character device of lab5: the driver that keeps what was written to it *)
(* (hello-file-complete/hello_file.c) and the one that counts its openers     *)
(* (src-1/src/hello-file/hello_file.c).  The kernel (lab5/config: User Mode   *)
(* Linux, one processor) runs a handler to its end unless it sleeps, and none *)
(* of these does before its last change.  A message that fills msg has no NUL, *)
(* and who reads it goes on into what lies behind msg in memory: anything.     *)
EXTENDS Naturals, Sequences, SequencesExt

CONSTANTS Files,     \* what processes open the device with
          BUF_LEN,   \* 80
          Data,      \* what is written
          Beyond,    \* what may lie behind msg, to the next NUL
          MaxLength, \* bound: of one read or write
          MaxBeyond, \* bound: how far behind msg a read goes
          MaxOpens   \* bound: on counter

ASSUME BufferAssumption ==
    /\ BUF_LEN \in Nat \ {0, 1}   \* the greeting fits
    /\ Beyond \subseteq Seq(Nat \ {0})

VARIABLES driver,       \* "hello" or "complete"
          Device_Open, msg, msg_ptr, counter,
          isOpen,       \* the files that are open
          got           \* what each read since its open or the last write
deviceVars == <<driver, Device_Open, msg, msg_ptr, counter, isOpen, got>>

NUL == 0
DeviceInit ==
    /\ driver \in {"hello", "complete"} /\ Device_Open = 0 /\ counter = 0
    /\ msg = [i \in 1 .. BUF_LEN |-> NUL] /\ msg_ptr = 1
    /\ isOpen = {} /\ got = [f \in Files |-> <<>>]

\* "I already told you %d times Hello World!": the number, with 1 added to
\* tell it from a NUL, and the NUL behind it.
Greeting(n) == [msg EXCEPT ![1] = n + 1, ![2] = NUL]
\* Mutant of device_open: no -EBUSY.
device_open_busy(f) ==
    /\ f \notin isOpen
    /\ Device_Open' = Device_Open + 1 /\ isOpen' = isOpen \cup {f}
    /\ msg_ptr' = 1 /\ got' = [got EXCEPT ![f] = <<>>]
    /\ \/ driver = "hello" /\ counter < MaxOpens /\ counter' = counter + 1 /\ msg' = Greeting(counter)
       \/ driver = "complete" /\ UNCHANGED <<counter, msg>>
    /\ UNCHANGED driver

device_open(f) ==
    /\ f \notin isOpen /\ Device_Open = 0   \* -EBUSY changes nothing
    /\ Device_Open' = Device_Open + 1 /\ isOpen' = isOpen \cup {f}
    /\ msg_ptr' = 1 /\ got' = [got EXCEPT ![f] = <<>>]
    /\ \/ driver = "hello" /\ counter < MaxOpens /\ counter' = counter + 1 /\ msg' = Greeting(counter)
       \/ driver = "complete" /\ UNCHANGED <<counter, msg>>
    /\ UNCHANGED driver
device_release(f) ==
    /\ f \in isOpen /\ isOpen' = isOpen \ {f} /\ Device_Open' = Device_Open - 1
    /\ UNCHANGED <<driver, msg, msg_ptr, counter, got>>

\* What lies from msg_ptr to the next NUL: if none is left in msg the memory
\* behind it, rest, which may be another one each time.
Unread(rest) ==
    LET ends == {i \in msg_ptr .. BUF_LEN : msg[i] = NUL}
    IN  IF ends = {} THEN SubSeq(msg, msg_ptr, BUF_LEN) \o rest
        ELSE SubSeq(msg, msg_ptr, (CHOOSE i \in ends : \A j \in ends : i <= j) - 1)
device_read(f) ==
    /\ f \in isOpen
    /\ \E length \in 1 .. MaxLength, rest \in Beyond :
         LET left == Len(Unread(rest))
             bytes_read == IF length < left THEN length ELSE left
         IN  /\ msg_ptr + bytes_read <= BUF_LEN + MaxBeyond
             /\ msg_ptr' = msg_ptr + bytes_read
             /\ got' = [got EXCEPT ![f] = @ \o SubSeq(Unread(rest), 1, bytes_read)]
    /\ UNCHANGED <<driver, Device_Open, msg, counter, isOpen>>
\* The last bytes come first, as many as fit; what was behind them stays.
device_write(f) ==
    /\ f \in isOpen /\ driver = "complete"   \* the other driver: -EINVAL
    /\ \E buffer \in UNION {[1 .. len -> Data] : len \in 1 .. MaxLength} :
         msg' = [i \in 1 .. BUF_LEN |-> IF i <= Len(buffer) THEN Reverse(buffer)[i] ELSE msg[i]]
    /\ msg_ptr' = 1 /\ got' = [got EXCEPT ![f] = <<>>]
    /\ UNCHANGED <<driver, Device_Open, counter, isOpen>>

DeviceNext == \E f \in Files : device_open(f) \/ device_release(f) \/ device_read(f) \/ device_write(f)
----------------------------------------------------------------------------
\* The driver has one position for all its users: what a file reads is the
\* message from its start, without a gap, a repetition or a NUL, because nobody
\* else gets in between; bytes that are not of the message come only behind all
\* BUF_LEN of them, and never from the driver that writes its message itself;
\* and when the device is closed it can be had again.
OneReaderAtATime ==
    /\ \A f \in isOpen :
         /\ Len(got[f]) = msg_ptr - 1
         /\ \A k \in DOMAIN got[f] : k <= BUF_LEN => got[f][k] = msg[k] /\ msg[k] # NUL
         /\ driver = "hello" => Len(got[f]) < BUF_LEN
    /\ isOpen = {} => Device_Open = 0
=============================================================================
