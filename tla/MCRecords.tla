------------------------------ MODULE MCRecords ------------------------------
(* The record file, the two stores of a session and the cases of the suite, *)
(* each a part of its own: a behaviour is one of one part.                  *)
EXTENDS RecordFile, StoreCases

VARIABLE part

recordsvars == <<part, filevars, storevars, casevars>>

RecordsInit ==
    /\ part \in {"file", "stores", "cases"}
    /\ FileInit /\ StoresInit /\ CaseInit
    \* The parts that do not move begin in one way.
    /\ part # "file" => file = "document"
    /\ part # "stores" => topic = "dispatches"
    /\ part # "cases" => case = "RunCRUD" /\ subject = "fs"

RecordsNext ==
    \/ part = "file" /\ FileNext /\ UNCHANGED <<part, storevars, casevars>>
    \/ part = "stores" /\ StoresNext /\ UNCHANGED <<part, filevars, casevars>>
    \/ part = "cases" /\ CaseNext /\ UNCHANGED <<part, filevars, storevars>>

RecordsSpec == RecordsInit /\ [][RecordsNext]_recordsvars
==============================================================================
