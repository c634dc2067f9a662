----------------------------- MODULE IntakeForm -----------------------------
(* The screen on which Admin raises a complaint                             *)
(* (admin/CreateComplaintPage.tsx): what he has entered, what the lookups   *)
(* behind it have answered so far, and what is sent. Fields that nothing    *)
(* depends on are taken as filled in; an address is complete or missing.    *)
EXTENDS Recommendation, FiniteSets

CONSTANTS Customers,   \* customers, known by their mobile numbers
          Addresses,   \* complete addresses, with pincode and city
          HomeOf,      \* by customer: the address on file
          Unlisted,    \* addresses whose city is not in the list the page has
          Models,      \* product models
          ProductOf,   \* by model: its product
          Unset        \* an empty field

ASSUME FormAssumption == /\ HomeOf \in [Customers -> Addresses]
                         /\ Unlisted \subseteq Addresses
                         /\ Unset \notin Customers \cup Addresses \cup Models

VARIABLES onFile,       \* the server's customers
          centers,      \* the server's service centres
          closed,       \* history: centres that were not active at some time
          customerMode, customer, newCustomer, matched,
          useDifferentAddress, serviceAddress,
          productId, productModelId, serviceCenterId,
          lists,        \* by query: the recommendations the page has
          pending       \* the request under way, and the screen it left
world == <<onFile, centers, closed>>
person == <<customerMode, customer, newCustomer, matched>>
address == <<useDifferentAddress, serviceAddress>>
product == <<productId, productModelId>>
formVars == <<onFile, centers, closed, customerMode, customer, newCustomer,
              matched, useDifferentAddress, serviceAddress, productId,
              productModelId, serviceCenterId, lists, pending>>

Products == {ProductOf[m] : m \in Models}

(* A query for centres: the address, and whether its city is named.         *)
Queries == Addresses \X BOOLEAN

Blank == /\ customerMode = "existing" /\ customer = Unset
         /\ newCustomer = [mobile |-> Unset, home |-> Unset] /\ matched = "unasked"
         /\ useDifferentAddress = FALSE /\ serviceAddress = Unset
         /\ productId = Unset /\ productModelId = Unset
         /\ serviceCenterId = Unset
         /\ lists = [q \in Queries |-> Unset]
         /\ pending = Unset

FormInit(known, places) == /\ onFile = known /\ centers = places
                           /\ closed = {z.name : z \in {x \in places : ~x.isActive}}
                           /\ Blank

----------------------------------------------------------------------------
(* What the page derives.                                                   *)
onRecord == customerMode = "existing" /\ customer # Unset
defaultAddress == IF onRecord THEN HomeOf[customer] ELSE newCustomer.home
hasDefaultAddress == defaultAddress # Unset /\ ~(onRecord /\ defaultAddress \in Unlisted)
location == IF useDifferentAddress THEN serviceAddress ELSE defaultAddress
effectiveAddress == IF useDifferentAddress \/ hasDefaultAddress THEN location ELSE Unset
cityNamed == useDifferentAddress \/ hasDefaultAddress
offered == IF location = Unset THEN Unset ELSE lists[<<location, cityNamed>>]

(* The address part of the screen is there only beside a default address.   *)
shownAddress == IF hasDefaultAddress THEN effectiveAddress ELSE Unset

----------------------------------------------------------------------------
(* 1. The customer: looked up, or entered as new. The mode clears the       *)
(* choice; what was entered stays.                                          *)
setCustomerMode == /\ customerMode' \in {"existing", "new"} /\ customer' = Unset
                   /\ UNCHANGED <<newCustomer, matched>>
setCustomer == /\ customerMode = "existing"
               /\ \/ customer = Unset /\ customer' \in onFile
                  \/ customer # Unset /\ customer' = Unset
               /\ UNCHANGED <<customerMode, newCustomer, matched>>
setNewCustomer == /\ customerMode = "new"
                  /\ \/ \E m \in Customers \ {newCustomer.mobile} :
                           /\ newCustomer' = [newCustomer EXCEPT !.mobile = m]
                           /\ matched' = "unasked"
                     \/ \E a \in Addresses : /\ newCustomer' = [newCustomer EXCEPT !.home = a]
                                             /\ matched' = matched
                  /\ UNCHANGED <<customerMode, customer>>
(* The mobile is looked up as it is typed.                                  *)
mobileMatch == /\ customerMode = "new" /\ newCustomer.mobile # Unset
               /\ matched' = IF newCustomer.mobile \in onFile THEN "taken" ELSE "free"
               /\ UNCHANGED <<customerMode, customer, newCustomer>>
useDuplicate == /\ customerMode = "new" /\ matched = "taken"
                /\ customerMode' = "existing" /\ customer' = newCustomer.mobile
                /\ UNCHANGED <<newCustomer, matched>>

(* 2. The product. The model chosen for another product is dropped.         *)
setProduct == productId' \in Products \ {productId} /\ productModelId' = Unset
setModel == /\ productModelId' \in {m \in Models : ProductOf[m] = productId}
            /\ productId' = productId

(* 4. The service address, seeded from the default once.                    *)
toggleDifferent == /\ hasDefaultAddress
                   /\ useDifferentAddress' = ~useDifferentAddress
                   /\ serviceAddress' = IF useDifferentAddress' /\ serviceAddress = Unset
                                        THEN defaultAddress ELSE serviceAddress
setServiceAddress == /\ hasDefaultAddress /\ useDifferentAddress
                     /\ serviceAddress' \in Addresses
                     /\ useDifferentAddress' = useDifferentAddress

(* 5. The centre, from the recommendations for the address in effect: the   *)
(* page lists the ones proposed and the others. The choice stays when the   *)
(* address changes.                                                         *)
recommendations == recommendServiceCenters(centers,
                      [pincode |-> location.pincode,
                       city |-> IF cityNamed THEN location.city ELSE Missing,
                       territory |-> Missing])
named(list) == {list[i].center.name : i \in DOMAIN list}
(* Mutant: the others are not listed.                                       *)
proposedOnly(result) == named(result.recommended)
options(result) == named(listed(result))
recommend == /\ location # Unset
             /\ lists' = [lists EXCEPT ![<<location, cityNamed>>] = options(recommendations)]
setServiceCenter == offered # Unset /\ serviceCenterId' \in offered \cup {Unset}

----------------------------------------------------------------------------
(* onSubmit: sent when the page itself sees no gap.                         *)
customerComplete == IF customerMode = "existing" THEN customer # Unset
                    ELSE newCustomer.mobile # Unset /\ newCustomer.home # Unset /\ matched # "taken"
submit == /\ customerComplete /\ productModelId # Unset /\ effectiveAddress # Unset
          /\ pending' = [customer |-> IF onRecord THEN customer ELSE newCustomer.mobile,
                         new |-> ~onRecord, model |-> productModelId, product |-> productId,
                         address |-> effectiveAddress, center |-> serviceCenterId,
                         shown |-> shownAddress, typed |-> useDifferentAddress,
                         unlisted |-> onRecord /\ defaultAddress \in Unlisted,
                         options |-> offered]

(* "Create another" loads the page afresh.                                  *)
createAnother == /\ customerMode' = "existing" /\ customer' = Unset
                 /\ newCustomer' = [mobile |-> Unset, home |-> Unset] /\ matched' = "unasked"
                 /\ useDifferentAddress' = FALSE /\ serviceAddress' = Unset
                 /\ productId' = Unset /\ productModelId' = Unset
                 /\ serviceCenterId' = Unset
                 /\ lists' = [q \in Queries |-> Unset]
                 /\ pending' = Unset

(* The server raises it, or refuses it; a reply may be lost.                *)
acceptable == /\ pending.new => pending.customer \notin onFile
              /\ ProductOf[pending.model] = pending.product
              /\ \/ pending.center = Unset
                 \/ \E z \in centers : z.name = pending.center /\ z.isActive
raised == /\ pending # Unset /\ acceptable
          /\ onFile' = onFile \cup {pending.customer}
          /\ createAnother
          /\ UNCHANGED <<centers, closed>>
failed == /\ pending # Unset /\ pending' = Unset
          /\ onFile' \in IF acceptable THEN {onFile, onFile \cup {pending.customer}} ELSE {onFile}
          /\ UNCHANGED <<centers, closed, person, address, product, serviceCenterId, lists>>

(* Meanwhile, elsewhere: a customer is entered, a centre deactivated or     *)
(* activated again.                                                         *)
elsewhere == /\ \/ \E c \in Customers : onFile' = onFile \cup {c} /\ UNCHANGED <<centers, closed>>
                \/ \E z \in centers :
                      /\ centers' = (centers \ {z}) \cup {[z EXCEPT !.isActive = ~@]}
                      /\ closed' = closed \cup {z.name}
                      /\ onFile' = onFile
             /\ UNCHANGED <<person, address, product, serviceCenterId, lists, pending>>

edit == /\ pending = Unset
        /\ \/ /\ setCustomerMode \/ setCustomer \/ setNewCustomer \/ useDuplicate
              /\ UNCHANGED <<address, product, serviceCenterId>>
           \/ (setProduct \/ setModel) /\ UNCHANGED <<person, address, serviceCenterId>>
           \/ (toggleDifferent \/ setServiceAddress) /\ UNCHANGED <<person, product, serviceCenterId>>
           \/ setServiceCenter /\ UNCHANGED <<person, address, product>>
        /\ UNCHANGED <<world, lists, pending>>
answer == /\ \/ mobileMatch /\ lists' = lists
             \/ recommend /\ UNCHANGED person
          /\ UNCHANGED <<world, address, product, serviceCenterId, pending>>
send == /\ pending = Unset /\ submit
        /\ UNCHANGED <<world, person, address, product, serviceCenterId, lists>>

FormNext == edit \/ answer \/ send \/ raised \/ failed \/ elsewhere

----------------------------------------------------------------------------
(* What is sent is what the page shows, through any order of choosing,      *)
(* changing one's mind and late answers: "the complaint is never saved with *)
(* an address nobody confirmed on screen" (CreateComplaintPage.tsx 105-109),*)
(* nor with a model of a product chosen before, nor with a centre chosen    *)
(* for another address that is not among those listed for this one. But for *)
(* - a customer whose city is missing from the cities the page has loaded:  *)
(*   the address part is hidden, while a different address typed for an     *)
(*   earlier customer is still sent;                                        *)
(* - a centre chosen before the address changed, sent while the centres for *)
(*   the new address have not come;                                         *)
(* - a centre chosen and then deactivated: the next list is without it, and *)
(*   the choice is sent all the same. The server refuses it, unless it is   *)
(*   active again.                                                          *)
SentAsShown ==
    pending # Unset =>
        /\ pending.address = pending.shown \/ (pending.unlisted /\ pending.typed)
        /\ ProductOf[pending.model] = pending.product
        /\ \/ pending.center = Unset \/ pending.options = Unset
           \/ pending.center \in pending.options \cup closed
=============================================================================
