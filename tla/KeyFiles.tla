------------------------------ MODULE KeyFiles ------------------------------
(***************************************************************************)
(* `key generate` of the CLI and the key files it writes (signatures.py):  *)
(* processes that generate key pairs at the same time, each under a        *)
(* private and a public path, with or without --force.  A key pair is      *)
(* named by the call that generates it.  Nothing keeps paths apart: one    *)
(* command may name for its public key what another, or the same one,      *)
(* names for its private key.                                              *)
(***************************************************************************)
EXTENDS Integers, FiniteSets

CONSTANTS
    Generators,   \* processes
    Paths,        \* paths of key files
    PrivatePath,  \* the --private-key of each process
    PublicPath,   \* its --public-key
    Forcing,      \* the processes that pass --force
    NoFile,       \* content of a path without a file
    NoText,       \* content of a file created or truncated, not written yet
    Spoilt,       \* content of a file with a public key written over a private one
    MaxKeys,      \* bound: calls per process
    MaxDeaths     \* bound: calls cut short

ASSUME PathsAssumption ==
    /\ PrivatePath \in [Generators -> Paths] /\ PublicPath \in [Generators -> Paths]
    /\ Forcing \subseteq Generators
    /\ MaxKeys \in Nat /\ MaxDeaths \in Nat

KeyPairs == Generators \X (1..MaxKeys)

\* The two keys of a pair, as PEM texts.
Private(pair) == <<"private", pair>>
Public(pair)  == <<"public", pair>>

ASSUME ContentsAssumption ==
    /\ NoFile # NoText /\ NoFile # Spoilt /\ NoText # Spoilt
    /\ \A pair \in KeyPairs :
          {NoFile, NoText, Spoilt} \cap {Private(pair), Public(pair)} = {}

VARIABLES
    files,      \* the content of every path
    at,         \* where each process is in its call
    generated,  \* calls each process has begun
    deaths      \* calls cut short so far

keyVars == <<files, at, generated, deaths>>

KeyInit ==
    /\ files = [f \in Paths |-> NoFile]
    /\ at = [p \in Generators |-> "idle"]
    /\ generated = [p \in Generators |-> 0]
    /\ deaths = 0

\* The pair Ed25519KeyPair.generate makes in the current call.
key_pair(p) == <<p, generated[p]>>
exists(f) == files[f] # NoFile

Goes(p, place) == at' = [at EXCEPT ![p] = place]

\* key_generate is called and looks whether one of the files exists.
Refuses(p) == p \notin Forcing /\ (exists(PrivatePath[p]) \/ exists(PublicPath[p]))

key_generate(p) ==
    /\ at[p] = "idle"
    /\ generated[p] < MaxKeys
    /\ generated' = [generated EXCEPT ![p] = @ + 1]
    /\ \/ Refuses(p) /\ UNCHANGED at
       \/ ~Refuses(p) /\ Goes(p, "open private")
    /\ UNCHANGED <<files, deaths>>

\* (mutant) O_EXCL is not set
Exclusive_not(p) == FALSE

\* write_private_pem opens with O_EXCL unless it may overwrite.
Exclusive(p) == p \notin Forcing

\* (mutant) the public file is opened before the private one
OpenPrivate_second(p) ==
    /\ at[p] = "open private"
    /\ \/ /\ ~exists(PrivatePath[p])
          /\ files' = [files EXCEPT ![PublicPath[p]] = NoText, ![PrivatePath[p]] = NoText]
          /\ Goes(p, "write private")
       \/ /\ exists(PrivatePath[p])
          /\ files' = [files EXCEPT ![PublicPath[p]] = NoText]
          /\ IF Exclusive(p) THEN Goes(p, "idle") ELSE Goes(p, "write private")
    /\ UNCHANGED <<generated, deaths>>

\* os.open: O_CREAT without O_TRUNC leaves the content of an existing file;
\* O_EXCL raises FileExistsError, which ends the command.
OpenPrivate(p) ==
    /\ at[p] = "open private"
    /\ \/ /\ ~exists(PrivatePath[p])
          /\ files' = [files EXCEPT ![PrivatePath[p]] = NoText]
          /\ Goes(p, "write private")
       \/ /\ exists(PrivatePath[p]) /\ ~Exclusive(p)
          /\ Goes(p, "write private")
          /\ UNCHANGED files
       \/ /\ exists(PrivatePath[p]) /\ Exclusive(p)
          /\ Goes(p, "idle")
          /\ UNCHANGED files
    /\ UNCHANGED <<generated, deaths>>

\* os.write over the start of the file: all private PEMs have one length, which
\* is more than that of a public one.
write_private_pem(p) ==
    /\ at[p] = "write private"
    /\ files' = [files EXCEPT ![PrivatePath[p]] = Private(key_pair(p))]
    /\ Goes(p, "open public")
    /\ UNCHANGED <<generated, deaths>>

\* write_public_pem: write_bytes truncates the file, whether it exists or not,
OpenPublic(p) ==
    /\ at[p] = "open public"
    /\ files' = [files EXCEPT ![PublicPath[p]] = NoText]
    /\ Goes(p, "write public")
    /\ UNCHANGED <<generated, deaths>>

\* ... and writes a PEM at its start.  Of a private key that another command
\* has written there in between, the end is left behind it.
Longer(f) == files[f] = Spoilt \/ \E pair \in KeyPairs : files[f] = Private(pair)

write_public_pem(p) ==
    /\ at[p] = "write public"
    /\ files' = [files EXCEPT ![PublicPath[p]] =
                    IF Longer(PublicPath[p]) THEN Spoilt ELSE Public(key_pair(p))]
    /\ Goes(p, "idle")
    /\ UNCHANGED <<generated, deaths>>

\* The process dies or an operation raises.
Dies(p) ==
    /\ at[p] # "idle"
    /\ deaths < MaxDeaths
    /\ deaths' = deaths + 1
    /\ Goes(p, "idle")
    /\ UNCHANGED <<files, generated>>

KeyNext == \E p \in Generators :
    \/ key_generate(p) \/ OpenPrivate(p) \/ write_private_pem(p)
    \/ OpenPublic(p) \/ write_public_pem(p) \/ Dies(p)

KeySpec == KeyInit /\ [][KeyNext]_keyVars

-----------------------------------------------------------------------------
(* Properties *)

\* No command with --force names this private path, and no command names it
\* for its public key.
Kept(f) == \A p \in Generators : PublicPath[p] # f /\ (p \in Forcing => PrivatePath[p] # f)

\* A private key once written stays unless a command with --force names its
\* path, or a command names it as its public path: of commands that all found
\* no file, one writes and the others raise.
PrivateKeysKept ==
    [][\A f \in Paths, pair \in KeyPairs :
          Kept(f) /\ files[f] = Private(pair) => files'[f] = files[f]]_files

\* Nobody uses p's private path but as a private path, unforced, and nobody
\* p's public path but with p's private path.
Paired(p) ==
    /\ Kept(PrivatePath[p])
    /\ \A q \in Generators : PrivatePath[q] # PublicPath[p]
    /\ \A q \in Generators : PublicPath[q] = PublicPath[p] => PrivatePath[q] = PrivatePath[p]

\* Commands that share both paths leave a pair, if none of them forces: whatever
\* overlapped or died, the public key of the file is that of the private key.
PairsMatch ==
    \A p \in Generators, pair \in KeyPairs :
        Paired(p) /\ files[PublicPath[p]] = Public(pair)
            => files[PrivatePath[p]] = Private(pair)

\* Of such commands, as long as none dies and no other shares the private path
\* alone, one wins whatever the order: when all are done, both files are there
\* and hold the keys of one pair, and no loser has truncated either.
OneWins ==
    \A p \in Generators :
        /\ deaths = 0 /\ Paired(p) /\ generated[p] > 0
        /\ \A q \in Generators :
              PrivatePath[q] = PrivatePath[p] => PublicPath[q] = PublicPath[p] /\ at[q] = "idle"
        => \E pair \in KeyPairs : /\ files[PrivatePath[p]] = Private(pair)
                                  /\ files[PublicPath[p]] = Public(pair)
=============================================================================
