------------------------------ MODULE AppPackages ------------------------------
(***************************************************************************)
(* What a .hankapp archive must be to be accepted (PreviewArchive,          *)
(* ValidateManifest) and what installing it writes (extractArchive).        *)
(*                                                                          *)
(* A path is the sequence of its parts ("/a" begins with the empty part), a *)
(* trailing slash is the entry's dir flag.  A name stands for itself; those *)
(* that do not match the identifier pattern are in BadNames.  A text is one *)
(* of "ok", "", "blank" and "long"; a JSON value is its kind and its        *)
(* compact form.                                                            *)
(***************************************************************************)
EXTENDS Integers, Sequences, SequencesExt, Functions

BadNames == {"", "Bad Name"}
Identifier(x) == x \notin BadNames

\* cleanPackagePath, also of an archive entry (cleanArchivePath).
cleanPackagePath(p) == p # << >> /\ \A i \in DOMAIN p : p[i] \notin {"", ".", ".."}

\* validatePackagePath
validatePackagePath(p, required) == IF p = << >> THEN ~required ELSE cleanPackagePath(p)

\* validateTextField
validateTextField(text, required) == text \in (IF required THEN {"ok"} ELSE {"ok", ""})

----------------------------------------------------------------------------
(* The manifest *)

CommandIds(m) == {m.commands[i].id : i \in DOMAIN m.commands}
Declared(m) == Range(m.secrets)
Distinct(s, Key(_)) == \A i, j \in DOMAIN s : Key(s[i]) = Key(s[j]) => i = j

ValidCommands(m) ==
    /\ m.commands # << >>
    /\ Distinct(m.commands, LAMBDA c : c.id)
    /\ \A c \in Range(m.commands) :
        /\ Identifier(c.id)
        /\ c.mode = "request_response"
        /\ c.timeout \in 1..300
        /\ validatePackagePath(c.input, FALSE) /\ validatePackagePath(c.output, FALSE)

ReservedSlashCommands == {"/append", "/calendar", "/docs", "/files", "/ha", "/notes", "/status"}
ValidSlashCommands(m) ==
    /\ Distinct(m.slashes, LAMBDA s : s.command)
    /\ \A s \in Range(m.slashes) :
        /\ s.command \notin {"", "no slash"} \cup ReservedSlashCommands
        /\ validateTextField(s.text, FALSE)
        /\ s.id \in CommandIds(m)

Scalars == {"boolean", "number", "string"}

\* settingsJSONKind of an absent value is an error, so it is none of the scalars.
normalizeSettingsScalarJSON(v) == v.kind \in Scalars

\* validateSettingsDefault
validateSettingsDefault(f) ==
    f.default.kind = "absent" \/
    f.default.kind \in (CASE f.type = "boolean" -> {"boolean"}
                          [] f.type = "number"  -> {"number"}
                          [] f.type = "select"  -> Scalars
                          [] OTHER              -> {"string"})

ValidSettings(m) ==
    /\ validatePackagePath(m.schema, FALSE)
    /\ Distinct(m.secrets, LAMBDA x : x) /\ \A x \in Range(m.secrets) : Identifier(x)
    /\ Distinct(m.settings, LAMBDA f : f.key)
    /\ \A f \in Range(m.settings) :
        /\ Identifier(f.key)
        /\ f.type \in {"boolean", "number", "password", "path", "select", "text", "url"}
        /\ f.secret => Identifier(f.secretKey) /\ f.secretKey \in Declared(m)
        /\ f.source # "" => f.source = "file_sources" /\ f.type = "select"
        /\ validateSettingsDefault(f)
        /\ f.options # << >> => f.type = "select"
        /\ \A v \in Range(f.options) : normalizeSettingsScalarJSON(v)
        /\ f.options # << >> /\ f.default.kind # "absent" => f.default \in Range(f.options)
        /\ f.sourceField # "" =>
            f.type = "path" /\ \E g \in Range(m.settings) :
                g.key = f.sourceField /\ g.type = "select" /\ g.source = "file_sources"

ValidPermissions(m) ==
    /\ \A p \in Range(m.network) :
        p.kind = "configured_base_url" /\ \E f \in Range(m.settings) : f.key = p.field /\ f.type = "url"
    /\ \A p \in Range(m.fileAccess) :
        p.kind = "configured_source" /\ \E f \in Range(m.settings) :
            f.key = p.field /\ f.type = "select" /\ f.source = "file_sources"
    /\ ~m.events

ValidateManifest(m) ==
    /\ m.version = "supported" /\ Identifier(m.id)
    /\ validateTextField(m.name, TRUE) /\ validateTextField(m.about, FALSE)
    /\ m.runtime = "stdio" /\ validatePackagePath(m.run, TRUE)
    /\ ValidCommands(m) /\ ValidSlashCommands(m) /\ ValidSettings(m) /\ ValidPermissions(m)

\* referencedSchemaPaths
referencedSchemaPaths(m) ==
    ({m.schema} \cup UNION {{c.input, c.output} : c \in Range(m.commands)}) \ {<< >>}

----------------------------------------------------------------------------
(* The archive *)

HasParent(p, q) == Len(q) < Len(p) /\ SubSeq(p, 1, Len(q)) = q

OneSided(seen, e) == \A s \in seen : ~(~s.dir /\ HasParent(e.path, s.path))
\* validateArchivePathCollision against the entries before (OneSided, its mutant, looks one way only).
validateArchivePathCollision(seen, e) ==
    \A s \in seen : ~(~s.dir /\ HasParent(e.path, s.path)) /\ ~(~e.dir /\ HasParent(s.path, e.path))

FilesOf(z) == {e \in Range(z) : ~e.dir}

\* validateSchemaFile and decodeManifest: one JSON value of limited size ("json"), a small file.
validateSchemaFile(e) == e.content = "json"
decodeManifest(e) == e.content = "json"

\* PreviewArchive
PreviewArchive(pkg) ==
    LET z == pkg.entries
        m == pkg.m
    IN  /\ \A i \in DOMAIN z :
            /\ ~z[i].link
            /\ cleanPackagePath(z[i].path)
            /\ \A j \in 1..(i - 1) : z[j].path # z[i].path
            /\ validateArchivePathCollision({z[j] : j \in 1..(i - 1)}, z[i])
        /\ \E e \in FilesOf(z) : e.path = <<"app.json">> /\ decodeManifest(e)
        /\ ValidateManifest(m)
        /\ \E e \in FilesOf(z) : e.path = m.run
        /\ \A p \in referencedSchemaPaths(m) : \E e \in FilesOf(z) : e.path = p /\ validateSchemaFile(e)

\* extractArchive: entry by entry, directories made on the way; a path that is needed both as a
\* file and as a directory is an error.  The tree maps a path to the entry whose bytes it holds.
Parents(p) == {SubSeq(p, 1, k) : k \in 1..(Len(p) - 1)}
Blocked(tree, e) ==
    \/ e.link \/ ~cleanPackagePath(e.path)
    \/ \E q \in Parents(e.path) : q \in DOMAIN tree.files
    \/ IF e.dir THEN e.path \in DOMAIN tree.files ELSE e.path \in tree.dirs
ExtractEntry(tree, e) ==
    IF ~tree.ok \/ Blocked(tree, e) THEN [tree EXCEPT !.ok = FALSE]
    ELSE IF e.dir
    THEN [tree EXCEPT !.dirs = @ \cup Parents(e.path) \cup {e.path}]
    ELSE [tree EXCEPT !.dirs = @ \cup Parents(e.path),
                      !.files = [p \in DOMAIN tree.files \cup {e.path} |->
                                    IF p = e.path THEN e ELSE tree.files[p]]]
EmptyTree == [ok |-> TRUE, dirs |-> {}, files |-> << >>]
extractTree(z) == FoldLeft(ExtractEntry, EmptyTree, z)

----------------------------------------------------------------------------

\* What PreviewArchive accepts, installArchive installs whole: extraction meets no conflict whatever
\* the order of the entries, every file holds its own bytes and none those of another entry, the
\* runtime command and the schemas are files, every slash command names one command that has a
\* deadline, and every secret of the settings form is one that applySecrets will store.
AcceptedIsInstallable(pkg) ==
    PreviewArchive(pkg) =>
        LET t == extractTree(pkg.entries)
            m == pkg.m
        IN  /\ t.ok
            /\ Range(t.files) = FilesOf(pkg.entries)
            /\ \A p \in DOMAIN t.files : t.files[p].path = p
            /\ m.run \in DOMAIN t.files /\ referencedSchemaPaths(m) \subseteq DOMAIN t.files
            /\ \A s \in Range(m.slashes) : \E c \in Range(m.commands) :
                    c.id = s.id /\ c.timeout > 0 /\ \A d \in Range(m.commands) : d.id = s.id => d = c
            /\ \A f \in Range(m.settings) : f.secret => f.secretKey \in Declared(m)
============================================================================
