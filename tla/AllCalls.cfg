CONSTANTS
    ripper = ripper
    reaper = reaper
    shell = shell
    t1 = t1
    t2 = t2
    t3 = t3
    kp1 = kp1
    kp2 = kp2
    sh = sh
    p1 = p1
    p2 = p2
    p3 = p3
    NoThread = NoThread
    ThreadSlot <- MCThreadSlot2
    ProcessSlot <- MCProcessSlot2
    Boot <- MCBoot
    BootOwner <- MCBootOwner
    KernelProcess <- MCKernelProcess
    ThreadRipper = ripper
    ProcessRipper = reaper
    Calls <- SystemCalls
SPECIFICATION Spec
INVARIANTS
    TypeOK
    SchedulerConsistent
    ListConsistent
    CleanOnce
    Accounting
    JoinersWaitOnLiving
    AssertionsHold
PROPERTIES
    EndedStaysEnded
