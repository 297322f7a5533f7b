---------------------------- MODULE MCResolvers -----------------------------
(***************************************************************************)
(* Resolvers on a request with two aliases, over a vehicle, a device and   *)
(* an account.                                                             *)
(***************************************************************************)
EXTENDS Resolvers

CONSTANTS car, device, account,  \* DIDs
          f1, f2                 \* aliases

Row(did, key, blob) == [subject |-> did, key |-> key, blob |-> blob, voids |-> ""]

(* A blob between two events of the vehicle, one of which its tombstone     *)
(* voids, and an event of the device under the key that is voided.         *)
First == Row(car, "1", FALSE)
Tombstone == [Row(car, "3", FALSE) EXCEPT !.voids = "1"]
OfDevice == Row(device, "1", FALSE)
MCRows == {First, Row(car, "2", TRUE), Tombstone, OfDevice}

Unpaired == [d \in Dids |-> None]
ToCar == [Unpaired EXCEPT ![device] = car]
ToAccount == [Unpaired EXCEPT ![device] = account]

List(did, limit) ==
    [call |-> "cloudEvents", did |-> did, limit |-> limit, filter |-> MCRows,
     includeDeleted |-> FALSE]

(* A filter that only the voided event meets, and one that only the blob   *)
(* does, which is there in some of the requests.                           *)
Aliases ==
    {<<[List(car, 3) EXCEPT !.includeDeleted = TRUE],
       [List(device, NoLimit) EXCEPT !.call = "latestCloudEvent"]>>,
     <<List(device, 0), [List(car, 1) EXCEPT !.call = "indexes", !.filter = {First}]>>,
     <<[List(car, 1) EXCEPT !.filter = {Row(car, "2", TRUE)}],
       [List(car, 0) EXCEPT !.call = "latestIndex"]>>,
     <<List(account, 1),
       [List(car, 0) EXCEPT !.call = "latestIndex", !.filter = {First},
                            !.includeDeleted = TRUE]>>}

Asking(pair) == [f \in Fields |-> IF f = f1 THEN pair[1] ELSE pair[2]]

Tokens == {None, [asset |-> car, permissions |-> {"rawData"}],
           [asset |-> car, permissions |-> {"locationHistory"}],
           [asset |-> account,
            permissions |-> {"locationHistory", "nonLocationHistory"}]}

MCRequests ==
    [token : Tokens, asks : {Asking(pair) : pair \in Aliases}, identity : {TRUE},
     rows : {MCRows, {First}}, aftermarket : {Unpaired, ToAccount},
     synthetic : {ToCar}]
    \cup
    [token : Tokens, asks : {Asking(pair) : pair \in Aliases}, identity : {FALSE},
     rows : {MCRows}, aftermarket : {ToCar}, synthetic : {Unpaired}]
=============================================================================
