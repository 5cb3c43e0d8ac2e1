------------------------------ MODULE Container ------------------------------
(***************************************************************************)
(* Container updates: the version query and the install of the types       *)
(* /TML/TCU/CONT... (tmpl_updateagent.cpp:395-426, 607-636, 675-794,       *)
(* 1358-1445).  The details of a package are parsed into globals that      *)
(* outlive the handler (53-57) and that the version query writes too; a    *)
(* field the package lacks keeps its last value.  The container manager is *)
(* external.                                                               *)
(***************************************************************************)
EXTENDS Naturals

CONSTANT Details    \* what Containerdetails.json can say (DetailsShape)

Absent == "absent"          \* a field that is not there
Unset == ""                 \* a global not yet written

ContainerNames == {"navi", "media"}
ContainerVersions == {"v1", "v2"}

\* A check sum of up to 63 characters, one that is longer, and what is left of
\* the longer one once it is cut at character 63.
CheckSums == {"short", "long"}
CutCheckSum == "cut"

Fields == [name : ContainerNames, version : ContainerVersions, sum : CheckSums]
DetailsShape == [name : ContainerNames \cup {Absent},
                 version : ContainerVersions \cup {Absent},
                 sum : CheckSums \cup {Absent}]

\* A file that is missing, does not parse or holds no containerPackage array.
NoDetails == [name |-> Absent, version |-> Absent, sum |-> Absent]

ASSUME DetailsAssumption == Details \subseteq DetailsShape

VARIABLES
    globals,        \* gContainerName, gVersion, gCheckSum and ContainerJson
    detailsFile,    \* what lies in <cache>/container_update
    package,        \* the package of the install under way or last done
    contInstall,    \* its place or result
    sent,           \* the request this install sent, or none
    installed       \* the request the container manager carried out for it, or none

contVars == <<globals, detailsFile, package, contInstall, sent, installed>>

Globals == [name : ContainerNames \cup {Unset}, version : ContainerVersions \cup {Unset},
            sum : CheckSums \cup {CutCheckSum, Unset}, image : ContainerNames \cup {Unset}]
NoGlobals == [name |-> Unset, version |-> Unset, sum |-> Unset, image |-> Unset]

ContTypeOK ==
    /\ globals \in Globals
    /\ detailsFile \in DetailsShape /\ package \in DetailsShape
    /\ contInstall \in {"none", "parse", "call", "INSTALL_COMPLETED", "INSTALL_FAILED"}
    /\ sent \in Globals /\ installed \in Globals

ContInit ==
    /\ globals = NoGlobals
    /\ detailsFile = NoDetails /\ package = NoDetails
    /\ contInstall = "none"
    /\ sent = NoGlobals /\ installed = NoGlobals

\* What is known of the last install is dropped.
NoInstall ==
    /\ contInstall' = "none" /\ package' = NoDetails
    /\ sent' = NoGlobals /\ installed' = NoGlobals

-----------------------------------------------------------------------------
(* The version query.                                                      *)

\* Mutant: a field that is not there is copied like the others.
CopyAlways(field, value) == value

Keep(field, value) == IF value = Absent THEN field ELSE value

\* The manager's report, of any container, may lack a field; a failed call or a
\* report that does not parse changes nothing.  Without a version the default
\* 1.0 is reported.
QueryContainer ==
    /\ \E name \in ContainerNames \cup {Absent}, version \in ContainerVersions \cup {Absent} :
         globals' = [globals EXCEPT !.name = Keep(@, name), !.version = Keep(@, version)]
    /\ UNCHANGED <<detailsFile, package, contInstall, sent, installed>>

-----------------------------------------------------------------------------
(* The install.                                                            *)

\* The package is missing, or does not unzip: then its details may be there, and
\* stay, as no branch before the request removes the directory.
BeginContInstall(d) ==
    /\ package' = d /\ sent' = NoGlobals /\ installed' = NoGlobals
    /\ \/ detailsFile' = d /\ contInstall' = "parse"
       \/ d = NoDetails /\ UNCHANGED detailsFile /\ contInstall' = "parse"
       \/ detailsFile' \in {d, detailsFile} /\ contInstall' = "INSTALL_FAILED"
    /\ UNCHANGED globals

\* The check sum in force: a version ends the string at character 63.
CheckSum(d) ==
    IF d.version # Absent /\ Keep(globals.sum, d.sum) = "long" THEN CutCheckSum
    ELSE Keep(globals.sum, d.sum)

\* Mutant: the image keeps its first name.
ParsedOnce(d) ==
    [name |-> Keep(globals.name, d.name), version |-> Keep(globals.version, d.version),
     sum |-> CheckSum(d),
     image |-> IF globals.image = Unset THEN Keep(globals.image, d.name) ELSE globals.image]

\* parseContainerDetailsFromFile.  Details that do not parse are logged and the
\* install goes on with the globals.
Parsed(d) ==
    [name |-> Keep(globals.name, d.name), version |-> Keep(globals.version, d.version),
     sum |-> CheckSum(d), image |-> Keep(globals.image, d.name)]

\* createJsonMessage: the request is made of the globals.
ParseDetails ==
    /\ contInstall = "parse"
    /\ globals' = Parsed(detailsFile)
    /\ sent' = globals'
    /\ contInstall' = "call"
    /\ UNCHANGED <<detailsFile, package, installed>>

\* Mutant: the status is success until the report says otherwise.
StatusByDefault(report) == report \in {"Success", "no_status"}

\* What the report says.  One that does not parse, or lacks its array or the
\* UpdateStatus, is a failure.
StatusOf(report) == report = "Success"

\* The call fails or brings a report.  One of 4096 characters or more has been
\* freed when it is parsed, and reads as it was or not at all.
UpdateContainer ==
    /\ contInstall = "call"
    /\ \E report \in {"lost", "Success", "Failure", "no_status"}, done \in BOOLEAN :
         /\ report # "lost" => done = (report = "Success")
         /\ installed' = IF done THEN sent ELSE NoGlobals
         /\ \E read \in {report, "lost"} :
              contInstall' = IF StatusOf(read) THEN "INSTALL_COMPLETED" ELSE "INSTALL_FAILED"
    /\ detailsFile' = NoDetails
    /\ UNCHANGED <<globals, package, sent>>

\* The globals go with the process, the directory stays.
ContRestarts ==
    /\ globals' = NoGlobals
    /\ NoInstall
    /\ UNCHANGED detailsFile

-----------------------------------------------------------------------------
(* Properties.                                                             *)

Complete(d) == d.name # Absent /\ d.version # Absent /\ d.sum = "short"

RequestOf(d) == [name |-> d.name, version |-> d.version, sum |-> d.sum, image |-> d.name]

\* The install of a package whose details are complete, with a check sum the code
\* can keep, is requested with the details of that package alone, whatever an
\* older package, a version query or a failed install left in the globals and in
\* the directory (tmpl_updateagent.cpp:716-767, 771-793).
RequestDescribesPackage ==
    contInstall = "call" /\ Complete(package) => sent = RequestOf(package)

\* It ends as completed only when the manager carried out this request: not on a
\* lost, cut or incomplete report (tmpl_updateagent.cpp:1395-1444).
ContCompletedMeansInstalled ==
    contInstall = "INSTALL_COMPLETED" /\ Complete(package)
      => installed = RequestOf(package)
=============================================================================
