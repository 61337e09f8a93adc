----------------------------- MODULE Lifecycle ------------------------------
(***************************************************************************)
(* One process's life with LCW: initialize and finalize, the environment   *)
(* variables, the table of spinlock operations, and the objects whose      *)
(* locks and queues depend on them.  The backend modelled in detail is     *)
(* MPI's; of another one only that it is the chosen one.                   *)
(*                                                                         *)
(* A spinlock_t remembers the object its alloc made, and not the table it  *)
(* came from: every later lock, unlock and free goes through the table     *)
(* that is installed then.  Here a lock is the table it was made by, kept  *)
(* where the code has the lock: in a manager or in a device_t.             *)
(***************************************************************************)
EXTENDS Integers, Sequences

CONSTANTS
    Enabled,           \* the backends compiled in
    CustomTables,      \* tables a client may give custom_spinlock_setup
    MaxManagers,       \* bound on LCW_MPI_NUM_COMP_MANAGERS
    MaxDevices,        \* bound on the calls of alloc_device
    NULL

Backends == {"MPI", "LCI", "LCI2", "GEX"}
Pthread == "pthread_spinlock"
Tables == CustomTables \cup {Pthread}

ASSUME LifecycleAssumption ==
    /\ Enabled \subseteq Backends
    /\ Pthread \notin CustomTables
    /\ MaxManagers \in Nat /\ MaxDevices \in Nat
    /\ NULL \notin Backends \cup Tables \cup {"initialize", "finalize"}

VARIABLES
    env,            \* the process's environment variables
    backend_p,      \* the backend in use, or NULL
    inside,         \* the call the process is in the middle of, or NULL:
                    \* backend_p and the backend itself change one by one
    over,           \* the process has ended: by an assertion, an error of MPI,
                    \* or gasnet_exit
    mpi,            \* MPI itself: "none", "up" or "finalized"
    setuped,        \* custom_spinlock_setup was called
    spinlock_op,    \* the table in use, NULL before any was installed
    force_default_spinlock,
    g_comp_managers,   \* the locks of the shared completion managers
    g_ndevices,
    devices         \* the device_t objects alive

vars == <<env, backend_p, inside, over, mpi, setuped, spinlock_op,
          force_default_spinlock, g_comp_managers, g_ndevices, devices>>

(* What the process finds around it: the variables that change what the    *)
(* library does, and the extensions of the MPI it was built with.  The     *)
(* limit on pending messages is a constant of BackendMpi; the options of   *)
(* continuations and the type and length of queues change no lock and no   *)
(* device.                                                                 *)
Envs == [force : {NULL, TRUE, FALSE}, backend_auto : Backends \cup {NULL},
         comp_type : {NULL, "req", "cont"}, use_stream : BOOLEAN,
         num_comp_managers : 0 .. MaxManagers,
         features : SUBSET {"stream", "cont"}]

(* A device_t, with its locks.  comp_manager_p is a shared_ptr: it keeps   *)
(* the manager, and so its lock, alive as long as the device.  stream_lock *)
(* is there only if streams are compiled in.                               *)
Device ==
    [id : 0 .. MaxDevices, put_entry_lock : Tables,
     stream_lock : Tables \cup {NULL}, comp_manager_p : Tables]

TypeOK ==
    /\ env \in Envs
    /\ backend_p \in Backends \cup {NULL}
    /\ over \in BOOLEAN /\ setuped \in BOOLEAN
    /\ mpi \in {"none", "up", "finalized"}
    /\ spinlock_op \in Tables \cup {NULL}
    /\ force_default_spinlock \in BOOLEAN
    /\ inside \in {"initialize", "finalize", NULL}
    /\ g_comp_managers \in Seq(Tables) /\ Len(g_comp_managers) <= MaxManagers
    /\ g_ndevices \in 0 .. MaxDevices
    /\ devices \subseteq Device

Init ==
    /\ env \in Envs
    /\ backend_p = NULL /\ inside = NULL /\ over = FALSE /\ mpi = "none"
    /\ setuped = FALSE /\ spinlock_op = NULL
    /\ force_default_spinlock = FALSE
    /\ g_comp_managers = <<>> /\ g_ndevices = 0 /\ devices = {}

-----------------------------------------------------------------------------
(* The client's next call.                                                 *)
InClient == ~over /\ inside = NULL

EndProcess ==
    /\ over' = TRUE
    /\ UNCHANGED <<env, backend_p, inside, mpi, setuped, spinlock_op,
                   force_default_spinlock, g_comp_managers, g_ndevices, devices>>

(* custom_spinlock_init, with the configuration of that moment.            *)
CustomSpinlockInit ==
    IF ~setuped \/ force_default_spinlock THEN Pthread ELSE spinlock_op

(* init_env.                                                               *)
InitEnv == IF env.force = NULL THEN force_default_spinlock ELSE env.force

(* alloc_backend: AUTO is what LCW_BACKEND_AUTO names, else the first of   *)
(* MPI, LCI2 and LCI that is compiled in.                                  *)
AutoBackend ==
    CASE env.backend_auto # NULL -> env.backend_auto
      [] OTHER -> IF "MPI" \in Enabled THEN "MPI"
                  ELSE IF "LCI2" \in Enabled THEN "LCI2" ELSE "LCI"

AllocBackend(b) == IF b = "AUTO" THEN AutoBackend ELSE b

(* Mutant: one manager more than g_comp_managers was resized to.           *)
CompManagersOneMore(n, table) == [i \in 1 .. n + 1 |-> table]

(* backend_mpi_t::initialize, the shared completion managers.              *)
CompManagers(n, table) == [i \in 1 .. n |-> table]

(* config.comp_type: continuations are the default where MPI has them.     *)
CompType ==
    IF env.comp_type # NULL THEN env.comp_type
    ELSE IF "cont" \in env.features THEN "cont" ELSE "req"

(* Mutant: LCW_MPI_USE_STREAM is taken as it is.                           *)
RefusedStreamUnchecked == "stream" \notin env.features /\ CompType = "cont"

(* The settings backend_mpi_t::initialize asserts against.  Continuations  *)
(* are refused where streams are missing.                                  *)
RefusedByInitialize ==
    /\ "stream" \notin env.features
    /\ CompType = "cont" \/ env.use_stream

(* A manager cannot be made: comp_type is cont and MPI has no such thing.  *)
NoManager == CompType = "cont" /\ "cont" \notin env.features

(* When backend_mpi_t::initialize aborts: MPI_Init a second time, a        *)
(* setting this build refuses, shared managers of a kind that was not      *)
(* compiled.                                                               *)
InitializeMpiFails ==
    \/ mpi # "none"
    \/ RefusedByInitialize
    \/ env.num_comp_managers > 0 /\ NoManager

(* initialize, first half: the table is chosen, the environment is read,   *)
(* and backend_p is set.  A second call and a backend that is not compiled *)
(* in abort the process.                                                   *)
Initialize(b) ==
    LET chosen == AllocBackend(b)
    IN  /\ InClient
        /\ IF backend_p # NULL \/ chosen \notin Enabled THEN EndProcess
           ELSE /\ spinlock_op' = CustomSpinlockInit
                /\ force_default_spinlock' = InitEnv
                /\ backend_p' = chosen
                /\ inside' = "initialize"
                /\ UNCHANGED <<env, over, mpi, setuped, g_comp_managers, g_ndevices,
                               devices>>

(* Mutant: the managers are made with pthread's locks.                     *)
InitializeBackendPthread ==
    /\ ~over /\ inside = "initialize" /\ backend_p = "MPI" /\ ~InitializeMpiFails
    /\ inside' = NULL /\ mpi' = "up"
    /\ g_comp_managers' = CompManagers(env.num_comp_managers, Pthread)
    /\ UNCHANGED <<env, backend_p, over, setuped, spinlock_op, force_default_spinlock,
                   g_ndevices, devices>>

(* initialize, second half: the backend's own, with the table installed.   *)
InitializeBackend ==
    /\ ~over /\ inside = "initialize"
    /\ IF backend_p = "MPI" /\ InitializeMpiFails THEN EndProcess
       ELSE /\ inside' = NULL
            /\ IF backend_p = "MPI"
               THEN /\ mpi' = "up"
                    /\ g_comp_managers' = CompManagers(env.num_comp_managers, spinlock_op)
               ELSE UNCHANGED <<mpi, g_comp_managers>>
            /\ UNCHANGED <<env, backend_p, over, setuped, spinlock_op,
                           force_default_spinlock, g_ndevices, devices>>

(* Mutant: MPI is not finalized.                                           *)
FinalizeBackendOnly ==
    /\ InClient /\ backend_p # NULL
    /\ inside' = "finalize"
    /\ UNCHANGED <<env, backend_p, over, mpi, setuped, spinlock_op,
                   force_default_spinlock, g_comp_managers, g_ndevices, devices>>

(* finalize, first half: the backend's own.  MPI's clears g_comp_managers; *)
(* a manager that a device points to lives on.  GASNet ends the process.   *)
Finalize ==
    /\ InClient
    /\ IF backend_p \in {NULL, "GEX"} THEN EndProcess
       ELSE /\ inside' = "finalize"
            /\ IF backend_p = "MPI"
               THEN mpi' = "finalized" /\ g_comp_managers' = <<>>
               ELSE UNCHANGED <<mpi, g_comp_managers>>
            /\ UNCHANGED <<env, backend_p, over, setuped, spinlock_op,
                           force_default_spinlock, g_ndevices, devices>>

(* finalize, second half: backend_p is reset; g_ndevices keeps counting.   *)
ResetBackend ==
    /\ ~over /\ inside = "finalize"
    /\ inside' = NULL
    /\ backend_p' = NULL
    /\ UNCHANGED <<env, over, mpi, setuped, spinlock_op, force_default_spinlock,
                   g_comp_managers, g_ndevices, devices>>

(* Any other call asserts that there is a backend.                         *)
CallWithoutBackend == InClient /\ backend_p = NULL /\ EndProcess

(* custom_spinlock_setup is accepted at any time, and only warns of a      *)
(* second call.                                                            *)
CustomSpinlockSetup(table) ==
    /\ InClient
    /\ setuped' = TRUE
    /\ spinlock_op' = table
    /\ UNCHANGED <<env, backend_p, inside, over, mpi, force_default_spinlock,
                   g_comp_managers, g_ndevices, devices>>

-----------------------------------------------------------------------------
(* A device_t with the locks its members make.  Its manager is a shared    *)
(* one, picked round robin, or its own.                                    *)
NewDevice(id) ==
    [id |-> id, put_entry_lock |-> spinlock_op,
     stream_lock |-> IF "stream" \in env.features THEN spinlock_op ELSE NULL,
     comp_manager_p |-> IF g_comp_managers = <<>> THEN spinlock_op
                        ELSE g_comp_managers[1 + (id % Len(g_comp_managers))]]

(* alloc_device of the MPI backend: the id is g_ndevices++.                *)
AllocDevice ==
    /\ InClient /\ backend_p = "MPI" /\ g_ndevices < MaxDevices
    /\ ~(g_comp_managers = <<>> /\ NoManager)
    /\ g_ndevices' = g_ndevices + 1
    /\ devices' = devices \cup {NewDevice(g_ndevices)}
    /\ UNCHANGED <<env, backend_p, inside, over, mpi, setuped, spinlock_op,
                   force_default_spinlock, g_comp_managers>>

(* Without shared managers it is alloc_device that finds out that there    *)
(* are no continuations.                                                   *)
AllocDeviceFails ==
    InClient /\ backend_p = "MPI" /\ g_comp_managers = <<>> /\ NoManager /\ EndProcess

(* free_device deletes the device_t: put_entry_lock and stream_lock go     *)
(* with it, and a manager that nothing else points to.                     *)
FreeDevice(d) ==
    /\ InClient /\ backend_p = "MPI"
    /\ devices' = devices \ {d}
    /\ UNCHANGED <<env, backend_p, inside, over, mpi, setuped, spinlock_op,
                   force_default_spinlock, g_comp_managers, g_ndevices>>

Next ==
    \/ \E b \in Backends \cup {"AUTO"} : Initialize(b)
    \/ InitializeBackend
    \/ Finalize
    \/ ResetBackend
    \/ CallWithoutBackend
    \/ \E table \in CustomTables : CustomSpinlockSetup(table)
    \/ AllocDevice
    \/ AllocDeviceFails
    \/ \E d \in devices : FreeDevice(d)

Spec == Init /\ [][Next]_vars

-----------------------------------------------------------------------------
(* Outside of initialize and finalize, while the MPI backend is in use,    *)
(* every lock alive was made by the table that spinlock_t's lock, unlock   *)
(* and destructor will go through.                                         *)
LiveLocks ==
    {g_comp_managers[i] : i \in DOMAIN g_comp_managers}
    \cup UNION {{d.put_entry_lock, d.stream_lock, d.comp_manager_p} \ {NULL} : d \in devices}

LocksMatchTable ==
    backend_p = "MPI" /\ inside = NULL => LiveLocks \subseteq {spinlock_op}

(* Locks that match the table go on to match it, in every call but one: a  *)
(* custom_spinlock_setup that changes the table while locks are alive.     *)
(* Neither the order of initialize nor devices allocated and freed before  *)
(* and after another setup bring a lock to a table that did not make it.   *)
OnlySetupMismatches ==
    [][LocksMatchTable /\ ~LocksMatchTable' =>
          LiveLocks # {} /\ \E table \in CustomTables : CustomSpinlockSetup(table)]_vars

(* MPI is up only while it is the backend, also inside initialize and      *)
(* finalize, and outside of them it is up whenever it is the backend.      *)
MpiFollowsBackend ==
    /\ mpi = "up" => backend_p = "MPI"
    /\ backend_p = "MPI" /\ inside = NULL => mpi = "up"

(* A device that was allocated can communicate: the kind of completion and *)
(* the streams it is set up for are ones that MPI has.  initialize lets a  *)
(* setting pass that alloc_device refuses later.                           *)
DevicesSupported ==
    devices # {} => /\ CompType = "cont" => "cont" \in env.features
                    /\ env.use_stream => "stream" \in env.features

(* What the log of init_env says, "Set LCW_FORCE_PTHREAD_SPINLOCK to %d":  *)
(* with the variable set, initialize goes on with pthread's locks.         *)
ForceHonoured ==
    inside = "initialize" /\ env.force = TRUE => spinlock_op = Pthread
=============================================================================
